---- MODULE Spec2Model ----
(***************************************************************************)
(* Elaborator of the bootstrap compiler (src/bootstrap/analyse.ts): the    *)
(* expression graph, the type solver, the evaluator, the constraint solver *)
(* and the HIR solver, run over HIR register arrays produced by            *)
(* src/bootstrap/irgen.ts.                                                 *)
(*                                                                         *)
(* Mutable nodes (Symbol, Unknown, Variable) live in arenas and are        *)
(* referred to by index; immutable nodes (Number, String, Call, FnType,    *)
(* Lambda) are tuples headed by their kind.  Object identity of immutable  *)
(* nodes is therefore structural: the type cache is keyed by structure and *)
(* "the evaluator returned a different object" is "a different tuple".     *)
(* The logger is the silent one: logging thunks are never evaluated.       *)
(* A constraint object is named by an id; the id of an object that no list *)
(* holds any more is free to name a new object.                            *)
(***************************************************************************)
EXTENDS Integers, Sequences, FiniteSets, TLC

\* With(v, F) is F(v), with v evaluated once before F is applied to it
With(v, F(_)) == CHOOSE y \in {F(x) : x \in {v}} : TRUE

\* ------------------------------------------------------------------------
\* Expression (analyse.ts:41-124)
\* ------------------------------------------------------------------------
Nil == <<"nil">>
SymbolExpression(i) == <<"SYMBOL", i>>
VariableExpression(i) == <<"VARIABLE", i>>
UnknownExpression(i) == <<"UNKNOWN", i>>
NumberExpression(v, lvl) == <<"NUMBER", v, lvl>>
CallExpression(fn, arg, color) == <<"CALL", fn, arg, color>>
FnTypeExpression(arg, inputType, outputType, color) == <<"FN_TYPE", arg, inputType, outputType, color>>
LambdaExpression(arg, argType, body, color) == <<"LAMBDA", arg, argType, body, color>>

Kind(e) == e[1]
IsNil(e) == e[1] = "nil"

\* SymbolFlags (analyse.ts:19-26)
ALLOW_DEF_TYPE == 1
ALLOW_ASSIGNMENT == 2
ALLOW_DOWN_VALUE == 4
ALLOW_UP_VALUE == 8

HasFlag(flags, f) == (flags \div f) % 2 = 1

\* ------------------------------------------------------------------------
\* BuiltinSymbols (analyse.ts:193-330): symbols in creation order
\* ------------------------------------------------------------------------
SymBuiltin == 1
SymLevel == 2
SymSucc == 3
SymMax == 4
SymRoot == 5
SymType == 6
SymUntyped == 7
SymErrorType == 8
SymNumber == 9
SymString == 10
SymUnitType == 11
SymUnit == 12

builtin == SymbolExpression(SymBuiltin)
levelType == SymbolExpression(SymLevel)
levelSucc == SymbolExpression(SymSucc)
levelMax == SymbolExpression(SymMax)
root == SymbolExpression(SymRoot)
type == SymbolExpression(SymType)
untyped == SymbolExpression(SymUntyped)
errorType == SymbolExpression(SymErrorType)
numberType == SymbolExpression(SymNumber)
stringType == SymbolExpression(SymString)
unit == SymbolExpression(SymUnit)
level0 == NumberExpression(0, TRUE)

makeUniverse(level) == CallExpression(type, level, 0)

SymbolData(name, parent, flags, ty) ==
    [name |-> name, parent |-> parent, flags |-> flags, type |-> ty,
     value |-> Nil, downValues |-> <<>>, upValues |-> <<>>]

\* the Variable i bound by the type of Type: (i: Level) -> Type(succ(i))
BuiltinVariables == << [defaultType |-> levelType] >>

BuiltinSymbolTable ==
    LET u0 == makeUniverse(level0)
        i == VariableExpression(1)
    IN << SymbolData("builtin", 0, 0, Nil),
          SymbolData("Level", SymBuiltin, 0, u0),
          SymbolData("succ", SymLevel, 0, FnTypeExpression(Nil, levelType, levelType, 0)),
          SymbolData("max", SymLevel, 0,
                     FnTypeExpression(Nil, levelType, FnTypeExpression(Nil, levelType, levelType, 0), 0)),
          SymbolData("root", 0, 0, Nil),
          SymbolData("Type", SymBuiltin, 0,
                     FnTypeExpression(i, levelType, CallExpression(type, CallExpression(levelSucc, i, 0), 0), 0)),
          SymbolData("untyped", SymBuiltin, 0, u0),
          SymbolData("error-type", SymBuiltin, 0, u0),
          SymbolData("number", SymBuiltin, 0, u0),
          SymbolData("string", SymBuiltin, 0, u0),
          SymbolData("void", SymBuiltin, 0, u0),
          SymbolData("void", SymBuiltin, 0, u0) >>

\* the solver's memory right after construction: the arenas of the mutable
\* expression nodes and the fields of ConstraintSolver (analyse.ts:1084-1093);
\* cons is the copy of the active list that evaluate() iterates over
InitialMemory ==
    [unknowns |-> <<>>,
     variables |-> BuiltinVariables,
     symbols |-> BuiltinSymbolTable,
     constraints |-> <<>>,
     erroredConstraints |-> <<>>,
     constraintUnknowns |-> {},
     typeCache |-> <<>>,
     cons |-> <<>>,
     panicked |-> FALSE]

\* setParent (analyse.ts:164-172): subSymbols.set overwrites, so a name
\* resolves to the symbol registered last under that parent; 0 when absent
subSymbol(m, parent, name) ==
    LET hits == {i \in 1..Len(m.symbols) :
                    m.symbols[i].parent = parent /\ m.symbols[i].name = name}
    IN IF hits = {} THEN 0 ELSE CHOOSE i \in hits : \A j \in hits : j <= i

\* ------------------------------------------------------------------------
\* Expression utilities
\* ------------------------------------------------------------------------
\* an Unknown object that no arena entry holds: the node replaceScopeVariables
\* makes when it has no solver (analyse.ts:861); it is never the same node as
\* any other Unknown and never has a value
Detached == UnknownExpression(0)

RECURSIVE unwrapUnknown(_, _)
unwrapUnknown(m, expr) ==
    IF Kind(expr) = "UNKNOWN" /\ expr # Detached /\ ~IsNil(m.unknowns[expr[2]].value)
    THEN unwrapUnknown(m, m.unknowns[expr[2]].value)
    ELSE expr

unwrapUnknownNullable(m, expr) == IF IsNil(expr) THEN Nil ELSE unwrapUnknown(m, expr)

\* the Unknown nodes visitExpression reaches: it descends into Call, FnType
\* and the body of a Lambda, and follows neither Unknown.value nor argType
RECURSIVE visitExpression(_)
visitExpression(expr) ==
    CASE Kind(expr) = "UNKNOWN" -> {expr[2]}
      [] Kind(expr) = "CALL" -> visitExpression(expr[2]) \cup visitExpression(expr[3])
      [] Kind(expr) = "FN_TYPE" -> visitExpression(expr[3]) \cup visitExpression(expr[4])
      [] Kind(expr) = "LAMBDA" -> visitExpression(expr[4])
      [] OTHER -> {}

\* markRenamedVariable that moves the exclusion from `from` to `to`
markRenamedVariableMoved(m, from, to, expr) ==
    [m EXCEPT !.unknowns = [i \in 1..Len(m.unknowns) |->
        IF i \in visitExpression(expr) /\ from \in m.unknowns[i].excludedVariables
        THEN [m.unknowns[i] EXCEPT !.excludedVariables = (@ \ {from}) \cup {to}]
        ELSE m.unknowns[i]]]

\* add the Variable v to excludedVariables of every Unknown in us
AddExcluded(m, us, v) ==
    [m EXCEPT !.unknowns = [i \in 1..Len(m.unknowns) |->
        IF i \in us
        THEN [m.unknowns[i] EXCEPT !.excludedVariables = @ \cup {v}]
        ELSE m.unknowns[i]]]

markExcludedVariable(m, expr, v) == AddExcluded(m, visitExpression(expr), v)

markRenamedVariable(m, from, to, expr) ==
    AddExcluded(m, {u \in visitExpression(expr) : from \in m.unknowns[u].excludedVariables}, to)

\* the predicates handed to freeQ: <<"is", u>> is "expr === Unknown u",
\* <<"mentions", v>> is the predicate of variableFreeQ
Predicate(m, pred, expr) ==
    IF pred[1] = "is"
    THEN Kind(expr) = "UNKNOWN" /\ expr[2] = pred[2]
    ELSE \/ Kind(expr) = "VARIABLE" /\ expr[2] = pred[2]
         \/ Kind(expr) = "UNKNOWN" /\ pred[2] \notin m.unknowns[expr[2]].excludedVariables

\* freeQ: mapExpression reaches every leaf, following Unknown.value, and
\* terminates (the result is null) at the first leaf the predicate accepts
RECURSIVE freeQ(_, _, _)
freeQ(m, expr, pred) ==
    CASE Kind(expr) = "UNKNOWN" ->
            IF ~IsNil(m.unknowns[expr[2]].value)
            THEN freeQ(m, m.unknowns[expr[2]].value, pred)
            ELSE ~Predicate(m, pred, expr)
      [] Kind(expr) = "CALL" -> freeQ(m, expr[2], pred) /\ freeQ(m, expr[3], pred)
      [] Kind(expr) = "FN_TYPE" -> freeQ(m, expr[3], pred) /\ freeQ(m, expr[4], pred)
      [] Kind(expr) = "LAMBDA" -> freeQ(m, expr[3], pred) /\ freeQ(m, expr[4], pred)
      [] OTHER -> ~Predicate(m, pred, expr)

variableFreeQ(m, expr, variable) == freeQ(m, expr, <<"mentions", variable[2]>>)

canUseEtaReduction(m, expr) ==
    Kind(expr[3]) = "VARIABLE" /\ variableFreeQ(m, expr[2], expr[3])

\* collectFnArgs: <<head, args>>, unwrapping resolved Unknowns along the spine
RECURSIVE collectFnArgs(_, _)
collectFnArgs(m, expr) ==
    With(unwrapUnknown(m, expr), LAMBDA e :
    IF Kind(e) = "CALL"
    THEN With(collectFnArgs(m, e[2]), LAMBDA r : <<r[1], Append(r[2], e[3])>>)
    ELSE <<e, <<>> >>)

getFn(m, expr) == collectFnArgs(m, expr)[1]

RECURSIVE countArgs(_)
countArgs(expr) == IF Kind(expr) = "CALL" THEN 1 + countArgs(expr[2]) ELSE 0

RECURSIVE checkFnTypeColor(_, _, _)
checkFnTypeColor(m, expr, color) ==
    With(unwrapUnknown(m, expr), LAMBDA e :
    IF Kind(e) = "FN_TYPE" /\ e[5] # color
    THEN checkFnTypeColor(m, e[4], color)
    ELSE Kind(e) = "FN_TYPE")

\* ------------------------------------------------------------------------
\* Allocation and the constraint list
\* ------------------------------------------------------------------------
\* a new Unknown node; the result is <<memory, expression>>
NewUnknown(m, ty, isPattern, excluded) ==
    << [m EXCEPT !.unknowns = Append(@, [type |-> ty, isPattern |-> isPattern,
                                         excludedVariables |-> excluded, value |-> Nil])],
       UnknownExpression(Len(m.unknowns) + 1) >>

makeUnknown(m, ty, isPattern) == NewUnknown(m, ty, isPattern, {})

NewVariable(m, defaultType) ==
    << [m EXCEPT !.variables = Append(@, [defaultType |-> defaultType])],
       VariableExpression(Len(m.variables) + 1) >>

makeUnknownUniverse(m) ==
    With(makeUnknown(m, levelType, FALSE), LAMBDA l : <<l[1], makeUniverse(l[2])>>)

makeUnknownType(m) ==
    With(makeUnknownUniverse(m), LAMBDA u : makeUnknown(u[1], u[2], FALSE))

\* Constraint (analyse.ts:1042-1073).  id names the constraint object.
EqualConstraint(expr1, expr2) ==
    [kind |-> "EQUAL", target |-> 0, expr1 |-> expr1, expr2 |-> expr2, replaces |-> <<>>, id |-> 0]
EqualWithReplaceConstraint(target, expr, replaces) ==
    [kind |-> "EQUAL_WITH_REPLACE", target |-> target, expr1 |-> expr, expr2 |-> Nil, replaces |-> replaces, id |-> 0]
FnTypeTypeConstraint(target, type1, type2) ==
    [kind |-> "FN_TYPE_TYPE", target |-> target, expr1 |-> type1, expr2 |-> type2, replaces |-> <<>>, id |-> 0]
TypeofConstraint(target, expr) ==
    [kind |-> "TYPEOF", target |-> target, expr1 |-> expr, expr2 |-> Nil, replaces |-> <<>>, id |-> 0]

RECURSIVE ReplacementUnknowns(_)
ReplacementUnknowns(replaces) ==
    IF replaces = <<>> THEN {}
    ELSE visitExpression(replaces[1][2]) \cup ReplacementUnknowns(Tail(replaces))

scanConstraintUnknonws(con) ==
    CASE con.kind = "EQUAL" -> visitExpression(con.expr1) \cup visitExpression(con.expr2)
      [] con.kind = "EQUAL_WITH_REPLACE" -> {con.target} \cup ReplacementUnknowns(con.replaces)
      [] con.kind = "FN_TYPE_TYPE" ->
            {con.target} \cup visitExpression(con.expr1) \cup visitExpression(con.expr2)
      [] con.kind = "TYPEOF" -> {con.target} \cup visitExpression(con.expr1)

\* the ids of the constraint objects that are alive: the ones in the active
\* list, in the errored list and in the copy evaluate() iterates over
LiveIds(m) ==
    {m.constraints[i].id : i \in 1..Len(m.constraints)}
    \cup {m.erroredConstraints[i].id : i \in 1..Len(m.erroredConstraints)}
    \cup {m.cons[i].id : i \in 1..Len(m.cons)}

FreshId(m) == CHOOSE n \in 1..(Cardinality(LiveIds(m)) + 1) : n \notin LiveIds(m)

\* ConstraintSolver.add; a constraint object that has no id yet is a new one
add(m, con) ==
    [m EXCEPT !.constraintUnknowns = @ \cup scanConstraintUnknonws(con),
              !.constraints = Append(@, IF con.id = 0 THEN [con EXCEPT !.id = FreshId(m)]
                                        ELSE con)]

addEqualConstraint(m, expr1, expr2) == add(m, EqualConstraint(expr1, expr2))

containsConstraintUnknown(m, expr) == visitExpression(expr) \cap m.constraintUnknowns # {}

\* ------------------------------------------------------------------------
\* replaceScopeVariables (analyse.ts:811-874) over ExpressionMap (673-767)
\* ------------------------------------------------------------------------
\* Map.get on a list of <<key, value>> pairs; Nil (0) when absent
RECURSIVE MapGet(_, _, _)
MapGet(pairs, key, absent) ==
    IF pairs = <<>> THEN absent
    ELSE IF pairs[1][1] = key THEN pairs[1][2] ELSE MapGet(Tail(pairs), key, absent)

RECURSIVE CacheGet(_, _)
CacheGet(cache, expr) ==
    IF cache = <<>> THEN Nil
    ELSE IF cache[1][1] = expr THEN cache[1][2] ELSE CacheGet(Tail(cache), expr)

CacheSet(cache, expr, ty) ==
    IF IsNil(CacheGet(cache, expr))
    THEN Append(cache, <<expr, ty>>)
    ELSE [i \in 1..Len(cache) |-> IF cache[i][1] = expr THEN <<expr, ty>> ELSE cache[i]]

\* makeReplaceUnknown that posts no constraint for the new Unknown
makeReplaceUnknownUnposted(m, expr, ty, replaces) ==
    NewUnknown(m, ty, FALSE, m.unknowns[expr[2]].excludedVariables)

makeReplaceUnknown(m, expr, ty, replaces) ==
    With(NewUnknown(m, ty, FALSE, m.unknowns[expr[2]].excludedVariables), LAMBDA n :
    << add(n[1], EqualWithReplaceConstraint(n[2][2], expr, replaces)), n[2] >>)

\* enterScope of replaceScopeVariables: every replacement excludes v
RECURSIVE enterScope(_, _, _)
enterScope(m, reps, v) ==
    IF reps = <<>> THEN m
    ELSE enterScope(markExcludedVariable(m, reps[1][2], v), Tail(reps), v)

\* filteredReps with nothing filtered out
filteredRepsAll(m, expr, reps) == reps

\* the replacements whose Variable the Unknown expr does not exclude
\* (analyse.ts:842-847)
filteredReps(m, expr, reps) ==
    SelectSeq(reps, LAMBDA r :
        expr = Detached \/ r[1] \notin m.unknowns[expr[2]].excludedVariables)

\* ExpressionMap.map with the visitor of replaceScopeVariables.
\* cache is unknownCache; the result is <<memory, cache, expression>>.
RECURSIVE mapReplace(_, _, _, _, _)
mapReplace(m, cache, expr, reps, solver) ==
    CASE Kind(expr) = "VARIABLE" -> <<m, cache, MapGet(reps, expr[2], expr)>>
      [] Kind(expr) = "UNKNOWN" ->
            IF expr # Detached /\ ~IsNil(m.unknowns[expr[2]].value)
            THEN mapReplace(m, cache, m.unknowns[expr[2]].value, reps, solver)
            ELSE IF MapGet(cache, expr[2], Nil) # Nil
            THEN <<m, cache, MapGet(cache, expr[2], Nil)>>
            ELSE With(filteredReps(m, expr, reps), LAMBDA filteredReps2 :
                 IF filteredReps2 = <<>> THEN <<m, cache, expr>>
                 ELSE IF ~solver THEN <<m, Append(cache, <<expr[2], Detached>>), Detached>>
                 ELSE IF ~IsNil(m.unknowns[expr[2]].type)
                 THEN With(mapReplace(m, cache, m.unknowns[expr[2]].type, reps, solver), LAMBDA t :
                      With(makeReplaceUnknown(t[1], expr, t[3], filteredReps2), LAMBDA n :
                      <<n[1], Append(t[2], <<expr[2], n[2]>>), n[2]>>))
                 ELSE With(makeReplaceUnknown(m, expr, Nil, filteredReps2), LAMBDA n :
                      <<n[1], Append(cache, <<expr[2], n[2]>>), n[2]>>))
      [] Kind(expr) = "CALL" ->
            With(mapReplace(m, cache, expr[2], reps, solver), LAMBDA f :
            With(mapReplace(f[1], f[2], expr[3], reps, solver), LAMBDA a :
            <<a[1], a[2], CallExpression(f[3], a[3], expr[4])>>))
      [] Kind(expr) \in {"FN_TYPE", "LAMBDA"} ->
            \* FnType: inputType, enterScope(arg), outputType;
            \* Lambda: argType, enterScope(arg), body
            With(mapReplace(m, cache, expr[3], reps, solver), LAMBDA i :
            With(mapReplace(IF IsNil(expr[2]) THEN i[1] ELSE enterScope(i[1], reps, expr[2][2]),
                            i[2], expr[4], reps, solver), LAMBDA o :
            <<o[1], o[2], <<expr[1], expr[2], i[3], o[3], expr[5]>> >>))
      [] OTHER -> <<m, cache, expr>>

\* the result is <<memory, expression>>
replaceScopeVariables(m, expr, reps, solver) ==
    With(mapReplace(m, <<>>, expr, reps, solver), LAMBDA r : <<r[1], r[3]>>)

replaceScopeVariable(m, expr, v, replacement, solver) ==
    replaceScopeVariables(m, expr, << <<v[2], replacement>> >>, solver)

\* copyExpression (analyse.ts:655-663): the map with the identity visitor
\* replaces every resolved Unknown by its value
RECURSIVE copyExpression(_, _)
copyExpression(m, expr) ==
    CASE Kind(expr) = "UNKNOWN" ->
            IF ~IsNil(m.unknowns[expr[2]].value)
            THEN copyExpression(m, m.unknowns[expr[2]].value) ELSE expr
      [] Kind(expr) = "CALL" ->
            CallExpression(copyExpression(m, expr[2]), copyExpression(m, expr[3]), expr[4])
      [] Kind(expr) \in {"FN_TYPE", "LAMBDA"} ->
            <<expr[1], expr[2], copyExpression(m, expr[3]), copyExpression(m, expr[4]), expr[5]>>
      [] OTHER -> expr

\* ------------------------------------------------------------------------
\* sameQ (analyse.ts:916-976), matchPattern (978-1018)
\* ------------------------------------------------------------------------
\* the body or output type of expr2 with its argument renamed to the one of
\* expr1 (analyse.ts:950-953, 962-965): no solver is given
renamedBody(m, expr1, expr2) ==
    IF ~IsNil(expr1[2]) /\ ~IsNil(expr2[2]) /\ expr1[2] # expr2[2]
    THEN replaceScopeVariable(m, expr2[4], expr2[2], expr1[2], FALSE)[2]
    ELSE expr2[4]

RECURSIVE sameQ(_, _, _)
sameQ(m, e1, e2) ==
    With(unwrapUnknown(m, e1), LAMBDA expr1 :
    With(unwrapUnknown(m, e2), LAMBDA expr2 :
    CASE Kind(expr1) \in {"SYMBOL", "VARIABLE"} -> expr1 = expr2
      [] Kind(expr1) \in {"NUMBER", "STRING"} -> expr1 = expr2
      [] Kind(expr1) = "CALL" ->
            /\ Kind(expr2) = "CALL"
            /\ sameQ(m, expr1[2], expr2[2])
            /\ sameQ(m, expr1[3], expr2[3])
      [] Kind(expr1) = "FN_TYPE" ->
            /\ Kind(expr2) = "FN_TYPE"
            /\ sameQ(m, expr1[3], expr2[3])
            /\ sameQ(m, expr1[4], renamedBody(m, expr1, expr2))
      [] Kind(expr1) = "LAMBDA" ->
            /\ Kind(expr2) = "LAMBDA"
            /\ sameQ(m, expr1[4], renamedBody(m, expr1, expr2))
      [] Kind(expr1) = "UNKNOWN" -> expr1 = expr2 /\ expr1 # Detached))

\* the result is <<matched, reps>>
RECURSIVE matchInto(_, _, _, _)
matchInto(m, reps, pattern, expr) ==
    CASE Kind(pattern) = "SYMBOL" -> <<expr = pattern, reps>>
      [] Kind(pattern) \in {"STRING", "NUMBER", "LAMBDA", "FN_TYPE"} -> <<sameQ(m, pattern, expr), reps>>
      [] Kind(pattern) = "VARIABLE" ->
            With(MapGet(reps, pattern[2], Nil), LAMBDA old :
            IF ~IsNil(old) THEN <<sameQ(m, old, expr), reps>>
            ELSE <<TRUE, Append(reps, <<pattern[2], expr>>)>>)
      [] Kind(pattern) = "CALL" ->
            IF Kind(expr) # "CALL" \/ countArgs(pattern) # countArgs(expr)
            THEN <<FALSE, reps>>
            ELSE With(matchInto(m, reps, pattern[2], expr[2]), LAMBDA f :
                 IF f[1] THEN matchInto(m, f[2], pattern[3], expr[3]) ELSE f)
      [] OTHER -> <<FALSE, reps>>

matchPattern(m, pattern, expr) == matchInto(m, <<>>, pattern, expr)

\* ------------------------------------------------------------------------
\* TypeSolver (analyse.ts:345-447) and ConstraintSolver.getType (1135-1142)
\* Results are <<memory, expression>>.
\* ------------------------------------------------------------------------
\* getCachedType: the cached type, unwrapped, written back when it changed
getCachedType(m, expr) ==
    With(CacheGet(m.typeCache, expr), LAMBDA ty :
    IF IsNil(ty) THEN <<m, Nil>>
    ELSE With(unwrapUnknown(m, ty), LAMBDA type2 :
         << IF ty # type2 THEN [m EXCEPT !.typeCache = CacheSet(@, expr, type2)] ELSE m, type2 >>))

setType(m, expr, ty) == [m EXCEPT !.typeCache = CacheSet(@, expr, ty)]

RECURSIVE _getType(_, _)
_getType(m, expr) ==
    With(getCachedType(m, expr), LAMBDA cached :
    IF ~IsNil(cached[2]) THEN cached
    ELSE CASE Kind(expr) = "STRING" -> <<m, stringType>>
           [] Kind(expr) = "NUMBER" -> <<m, IF expr[3] THEN levelType ELSE numberType>>
           [] Kind(expr) = "UNKNOWN" ->
                 IF ~IsNil(m.unknowns[expr[2]].value)
                 THEN _getType(m, m.unknowns[expr[2]].value)
                 ELSE IF ~IsNil(m.unknowns[expr[2]].type)
                 THEN <<m, m.unknowns[expr[2]].type>>
                 ELSE With(NewUnknown(m, Nil, FALSE, m.unknowns[expr[2]].excludedVariables),
                           LAMBDA n : <<add(n[1], TypeofConstraint(n[2][2], expr)), n[2]>>)
           [] Kind(expr) = "VARIABLE" -> <<m, m.variables[expr[2]].defaultType>>
           [] Kind(expr) = "SYMBOL" ->
                 <<m, IF IsNil(m.symbols[expr[2]].type) THEN untyped ELSE m.symbols[expr[2]].type>>
           [] Kind(expr) = "FN_TYPE" ->
                 With(_getType(m, expr[3]), LAMBDA i :
                 With(_getType(i[1], expr[4]), LAMBDA o :
                 With(NewUnknown(o[1], Nil, FALSE, {}), LAMBDA r :
                 <<setType(add(r[1], FnTypeTypeConstraint(r[2][2], i[2], o[2])), expr, r[2]),
                   r[2]>>)))
           [] Kind(expr) = "CALL" ->
                 With(_getType(m, expr[2]), LAMBDA f :
                 With(unwrapUnknown(f[1], f[2]), LAMBDA fnType :
                 IF Kind(fnType) = "FN_TYPE"
                 THEN With(IF ~IsNil(fnType[2])
                           THEN replaceScopeVariable(f[1], fnType[4], fnType[2], expr[3], TRUE)
                           ELSE <<f[1], fnType[4]>>,
                           LAMBDA t : <<setType(t[1], expr, t[2]), t[2]>>)
                 ELSE <<setType(f[1], expr, errorType), errorType>>))
           [] Kind(expr) = "LAMBDA" ->
                 With(_getType(m, expr[4]), LAMBDA b :
                 With(FnTypeExpression(expr[2], expr[3], b[2], expr[5]), LAMBDA ty :
                 <<setType(b[1], expr, ty), ty>>)))

getType(m, expr) ==
    With(CacheGet(m.typeCache, expr), LAMBDA c :
    IF ~IsNil(c) THEN <<m, c>> ELSE _getType(m, expr))

\* ------------------------------------------------------------------------
\* Evaluator (analyse.ts:1860-2006).  Results are <<memory, expression>>.
\* ------------------------------------------------------------------------
isLevel(expr) == Kind(expr) = "NUMBER" /\ expr[3]

Max(a, b) == IF a >= b THEN a ELSE b

\* evaluateLevelMax without the swap that brings a literal first
evaluateLevelMaxUnswapped(x1, x2) ==
    IF isLevel(x1)
    THEN IF isLevel(x2) THEN NumberExpression(Max(x1[2], x2[2]), TRUE)
         ELSE IF x1[2] = 0 THEN x2 ELSE Nil
    ELSE Nil

\* Nil is "undefined"
evaluateLevelMax(x1, x2) ==
    LET swap == ~isLevel(x1) /\ isLevel(x2)
        a1 == IF swap THEN x2 ELSE x1
        a2 == IF swap THEN x1 ELSE x2
    IN IF isLevel(a1)
       THEN IF isLevel(a2) THEN NumberExpression(Max(a1[2], a2[2]), TRUE)
            ELSE IF a1[2] = 0 THEN a2 ELSE Nil
       ELSE Nil

makeLevelMax(a1, a2) ==
    IF IsNil(evaluateLevelMax(a1, a2))
    THEN CallExpression(CallExpression(levelMax, a1, 0), a2, 0)
    ELSE evaluateLevelMax(a1, a2)

\* the evaluator field of a built-in symbol; Nil when there is none or
\* when it returns undefined
evaluator(fn, args) ==
    CASE fn = levelSucc -> IF isLevel(args[1]) THEN NumberExpression(args[1][2] + 1, TRUE) ELSE Nil
      [] fn = levelMax -> IF Len(args) < 2 THEN Nil ELSE evaluateLevelMax(args[1], args[2])
      [] OTHER -> Nil

RECURSIVE upValuesOf(_, _)
upValuesOf(m, args) ==
    IF args = <<>> THEN <<>>
    ELSE With(IF Kind(args[1]) = "CALL" THEN getFn(m, args[1]) ELSE args[1], LAMBDA head :
         (IF Kind(args[1]) \in {"SYMBOL", "CALL"} /\ Kind(head) = "SYMBOL"
          THEN m.symbols[head[2]].upValues ELSE <<>>) \o upValuesOf(m, Tail(args)))

\* collectRules with the downValues of the head before the upValues
collectRulesDownFirst(m, expr) ==
    With(collectFnArgs(m, expr), LAMBDA fa :
    (IF Kind(fa[1]) = "SYMBOL" THEN m.symbols[fa[1][2]].downValues ELSE <<>>)
    \o upValuesOf(m, fa[2]))

collectRules(m, expr) ==
    With(collectFnArgs(m, expr), LAMBDA fa :
    upValuesOf(m, fa[2]) \o
    (IF Kind(fa[1]) = "SYMBOL" THEN m.symbols[fa[1][2]].downValues ELSE <<>>))

\* the first rule of rules whose left-hand side matches expr: <<rhs, reps>>,
\* or <<Nil, <<>> >>
RECURSIVE firstMatch(_, _, _)
firstMatch(m, rules, expr) ==
    IF rules = <<>> THEN <<Nil, <<>> >>
    ELSE With(matchPattern(m, rules[1][1], expr), LAMBDA r :
         IF r[1] THEN <<rules[1][2], r[2]>> ELSE firstMatch(m, Tail(rules), expr))

\* _postCall returning the right-hand side of the rule as substituted
_postCallUnevaluated(m, expr) ==
    With(collectFnArgs(m, expr), LAMBDA fa :
    IF Kind(fa[1]) # "SYMBOL" THEN <<m, expr>>
    ELSE With(evaluator(fa[1], fa[2]), LAMBDA value :
         IF ~IsNil(value) THEN <<m, value>>
         ELSE With(firstMatch(m, collectRules(m, expr), expr), LAMBDA hit :
              IF ~IsNil(hit[1])
              THEN replaceScopeVariables(m, hit[1], hit[2], TRUE)
              ELSE <<m, expr>>)))

RECURSIVE _evaluate(_, _)
_postCall(m, expr) ==
    With(collectFnArgs(m, expr), LAMBDA fa :
    IF Kind(fa[1]) # "SYMBOL" THEN <<m, expr>>
    ELSE With(evaluator(fa[1], fa[2]), LAMBDA value :
         IF ~IsNil(value) THEN <<m, value>>
         ELSE With(firstMatch(m, collectRules(m, expr), expr), LAMBDA hit :
              IF ~IsNil(hit[1])
              THEN With(replaceScopeVariables(m, hit[1], hit[2], TRUE), LAMBDA r :
                        _evaluate(r[1], r[2]))
              ELSE <<m, expr>>)))

_evaluate(m, expr) ==
    CASE Kind(expr) = "SYMBOL" ->
            IF ~IsNil(m.symbols[expr[2]].value)
            THEN _evaluate(m, m.symbols[expr[2]].value) ELSE <<m, expr>>
      [] Kind(expr) = "CALL" ->
            With(_evaluate(m, expr[2]), LAMBDA f :
            With(_evaluate(f[1], expr[3]), LAMBDA a :
            IF Kind(f[2]) = "LAMBDA"
            THEN IF ~IsNil(f[2][2])
                 THEN With(replaceScopeVariable(a[1], f[2][4], f[2][2], a[2], TRUE), LAMBDA r :
                           _evaluate(r[1], r[2]))
                 ELSE <<a[1], f[2][4]>>
            ELSE _postCall(a[1], CallExpression(f[2], a[2], expr[4]))))
      [] Kind(expr) = "FN_TYPE" ->
            With(_evaluate(m, expr[3]), LAMBDA i :
            With(_evaluate(i[1], expr[4]), LAMBDA o :
            <<o[1], FnTypeExpression(expr[2], i[2], o[2], expr[5])>>))
      [] Kind(expr) = "LAMBDA" ->
            With(_evaluate(m, expr[4]), LAMBDA b :
            IF ~IsNil(expr[2]) /\ Kind(b[2]) = "CALL" /\ canUseEtaReduction(b[1], b[2])
               /\ b[2][3] = expr[2]
            THEN <<b[1], b[2][2]>>
            ELSE <<b[1], LambdaExpression(expr[2], expr[3], b[2], expr[5])>>)
      [] Kind(expr) = "UNKNOWN" ->
            IF ~IsNil(m.unknowns[expr[2]].value)
            THEN _evaluate(m, m.unknowns[expr[2]].value) ELSE <<m, expr>>
      [] OTHER -> <<m, expr>>

evaluate(m, expr) == _evaluate(m, expr)

\* ------------------------------------------------------------------------
\* ConstraintSolver (analyse.ts:1084-1433).  Results are <<memory, boolean>>.
\* ------------------------------------------------------------------------
\* a failed assert or a panic() throws: the exception leaves the memory as
\* it is at that point and ends the run
panic(m) == [m EXCEPT !.panicked = TRUE]

\* erroredConstraints.push of a constraint object made on the spot
pushErrored(m, con) ==
    [m EXCEPT !.erroredConstraints =
                  Append(@, IF con.id = 0 THEN [con EXCEPT !.id = FreshId(m)] ELSE con)]

\* the result is <<memory, expression>>
makeLambda(m, body, arg, argType, color) ==
    IF Kind(body) = "CALL" /\ body[4] = color /\ body[3] = arg /\ variableFreeQ(m, body[2], arg)
    THEN <<m, body[2]>>
    ELSE IF variableFreeQ(m, body, arg)
    THEN <<m, LambdaExpression(Nil, argType, body, color)>>
    ELSE With(NewVariable(m, argType), LAMBDA newArg :
         With(replaceScopeVariable(newArg[1], body, arg, newArg[2], TRUE), LAMBDA b :
         <<b[1], LambdaExpression(newArg[2], argType, b[2], color)>>))

\* for (i < args1.length) addEqualConstraint(args1[i], args2[i]); reading
\* past the end of args2 hands undefined to scanUnknowns, which throws
RECURSIVE addEqualArgs(_, _, _)
addEqualArgs(m, args1, args2) ==
    IF args1 = <<>> THEN m
    ELSE IF args2 = <<>> THEN panic(m)
    ELSE addEqualArgs(addEqualConstraint(m, args1[1], args2[1]), Tail(args1), Tail(args2))

\* addEqualConstraint(getType(expr1), getType(expr2))
addEqualTypes(m, expr1, expr2) ==
    With(getType(m, expr1), LAMBDA t1 :
    With(getType(t1[1], expr2), LAMBDA t2 :
    addEqualConstraint(t2[1], t1[2], t2[2])))

\* assignValue without the occurs check
assignValueUnchecked(m, expr1, expr2) ==
    With(IF ~IsNil(m.unknowns[expr1[2]].type)
         THEN With(getType(m, expr2), LAMBDA t :
                   addEqualConstraint(t[1], m.unknowns[expr1[2]].type, t[2]))
         ELSE m,
         LAMBDA m1 : << [m1 EXCEPT !.unknowns[expr1[2]].value = expr2], TRUE >>)

\* analyse.ts:1189-1202: the Unknown expr1 takes the value expr2
assignValue(m, expr1, expr2) ==
    IF ~freeQ(m, expr2, <<"is", expr1[2]>>) THEN <<m, FALSE>>
    ELSE With(IF ~IsNil(m.unknowns[expr1[2]].type)
              THEN With(getType(m, expr2), LAMBDA t :
                        addEqualConstraint(t[1], m.unknowns[expr1[2]].type, t[2]))
              ELSE m,
              LAMBDA m1 : << [m1 EXCEPT !.unknowns[expr1[2]].value = expr2], TRUE >>)

\* assignUnknown that keeps the first side as the target
assignUnknownUnswapped(m, expr1, expr2) ==
    IF ~IsNil(m.unknowns[expr1[2]].value) THEN <<panic(m), FALSE>>
    ELSE IF Kind(expr2) # "UNKNOWN" THEN assignValue(m, expr1, expr2)
    ELSE IF ~IsNil(m.unknowns[expr2[2]].value) THEN <<panic(m), FALSE>>
    ELSE IF expr1 = expr2 THEN <<m, TRUE>>
    ELSE assignValue(m, expr1, expr2)

\* analyse.ts:1176-1203: expr1 is an Unknown
assignUnknown(m, expr1, expr2) ==
    IF ~IsNil(m.unknowns[expr1[2]].value) THEN <<panic(m), FALSE>>
    ELSE IF Kind(expr2) # "UNKNOWN" THEN assignValue(m, expr1, expr2)
    ELSE IF ~IsNil(m.unknowns[expr2[2]].value) THEN <<panic(m), FALSE>>
    ELSE IF expr1 = expr2 THEN <<m, TRUE>>
    ELSE IF m.unknowns[expr1[2]].isPattern /\ ~m.unknowns[expr2[2]].isPattern
    THEN assignValue(m, expr2, expr1)
    ELSE assignValue(m, expr1, expr2)

\* the output type or body of expr with its argument renamed to arg
\* (analyse.ts:1267-1276, 1290-1299); the result is <<memory, expression>>
renameArg(m, expr, arg) ==
    IF ~IsNil(expr[2])
    THEN replaceScopeVariable(markRenamedVariable(m, expr[2][2], arg[2], expr[4]),
                              expr[4], expr[2], arg, TRUE)
    ELSE <<m, expr[4]>>

\* analyse.ts:1257-1302: FnType against FnType, Lambda against Lambda.  The
\* tuples of both kinds are <<kind, arg, inputType|argType, outputType|body, color>>.
decomposeBinder(m, expr1, expr2) ==
    With(addEqualConstraint(m, expr1[3], expr2[3]), LAMBDA m0 :
    With(IF ~IsNil(expr1[2]) THEN NewVariable(m0, expr1[3])
         ELSE IF ~IsNil(expr2[2]) THEN NewVariable(m0, expr2[3])
         ELSE <<m0, Nil>>, LAMBDA a :
    With(renameArg(a[1], expr1, a[2]), LAMBDA o1 :
    With(renameArg(o1[1], expr2, a[2]), LAMBDA o2 :
    <<addEqualConstraint(o2[1], o1[2], o2[2]), TRUE>>))))

\* analyse.ts:1251-1255: expr1 is a Call that canUseEtaReduction accepts
etaExpand(m, expr1, expr2) ==
    With(getType(m, expr1[3]), LAMBDA argType :
    With(makeLambda(argType[1], expr2, expr1[3], argType[2], expr1[4]), LAMBDA lam :
    <<addEqualConstraint(lam[1], expr1[2], lam[2]), TRUE>>))

\* analyse.ts:1244-1255
equalEta(m, expr1, expr2) ==
    IF canUseEtaReduction(m, expr1) THEN etaExpand(m, expr1, expr2)
    ELSE IF Kind(expr2) = "CALL" /\ canUseEtaReduction(m, expr2) THEN etaExpand(m, expr2, expr1)
    ELSE <<m, FALSE>>

\* equalHeads that decomposes under every Symbol head, whatever its flags
equalHeadsAnyFlags(m, expr1, expr2, fa1, fa2) ==
    IF /\ Kind(fa1[1]) = "SYMBOL" /\ Kind(fa2[1]) = "SYMBOL"
       /\ Len(fa1[2]) = Len(fa2[2]) /\ fa1[1] = fa2[1]
    THEN With(addEqualArgs(m, fa1[2], fa2[2]), LAMBDA m1 :
         <<IF fa1[1] # type THEN addEqualTypes(m1, expr1, expr2) ELSE m1, TRUE>>)
    ELSE IF Kind(fa1[1]) = "VARIABLE" /\ Kind(fa2[1]) = "VARIABLE"
    THEN IF fa1[1] # fa2[1]
         THEN <<pushErrored(m, EqualConstraint(expr1, expr2)), TRUE>>
         ELSE With(addEqualArgs(m, fa1[2], fa2[2]), LAMBDA m1 :
              IF m1.panicked THEN <<m1, FALSE>> ELSE <<addEqualTypes(m1, expr1, expr2), TRUE>>)
    ELSE equalEta(m, expr1, expr2)

\* analyse.ts:1217-1243: both sides are Calls with heads fn1 and fn2
equalHeads(m, expr1, expr2, fa1, fa2) ==
    IF /\ Kind(fa1[1]) = "SYMBOL" /\ Kind(fa2[1]) = "SYMBOL"
       /\ Len(fa1[2]) = Len(fa2[2]) /\ fa1[1] = fa2[1]
       /\ ~HasFlag(m.symbols[fa1[1][2]].flags, ALLOW_DOWN_VALUE)
       /\ ~HasFlag(m.symbols[fa1[1][2]].flags, ALLOW_ASSIGNMENT)
    THEN With(addEqualArgs(m, fa1[2], fa2[2]), LAMBDA m1 :
         <<IF fa1[1] # type THEN addEqualTypes(m1, expr1, expr2) ELSE m1, TRUE>>)
    ELSE IF Kind(fa1[1]) = "VARIABLE" /\ Kind(fa2[1]) = "VARIABLE"
    THEN IF fa1[1] # fa2[1]
         THEN <<pushErrored(m, EqualConstraint(expr1, expr2)), TRUE>>
         ELSE With(addEqualArgs(m, fa1[2], fa2[2]), LAMBDA m1 :
              IF m1.panicked THEN <<m1, FALSE>> ELSE <<addEqualTypes(m1, expr1, expr2), TRUE>>)
    ELSE equalEta(m, expr1, expr2)

\* analyse.ts:1215-1256: expr1 is a Call
equalCall(m, expr1, expr2) ==
    IF Kind(expr2) = "CALL"
    THEN equalHeads(m, expr1, expr2, collectFnArgs(m, expr1), collectFnArgs(m, expr2))
    ELSE equalEta(m, expr1, expr2)

\* analyse.ts:1204-1303: neither side is an Unknown.  A Call on the first
\* side that is not decomposed is neither a FnType nor a Lambda, so that the
\* tests after it fail.
equalRigid(m, expr1, expr2) ==
    IF Kind(expr1) = "NUMBER" /\ Kind(expr2) = "NUMBER" /\ expr1[3] /\ expr2[3]
       /\ expr1[2] = expr2[2]
    THEN <<m, TRUE>>
    ELSE IF Kind(expr1) = "STRING" /\ Kind(expr2) = "STRING" /\ expr1[2] = expr2[2]
    THEN <<m, TRUE>>
    ELSE IF Kind(expr1) = "CALL" THEN equalCall(m, expr1, expr2)
    ELSE IF Kind(expr2) = "CALL" THEN equalCall(m, expr2, expr1)
    ELSE IF Kind(expr1) = "FN_TYPE" /\ Kind(expr2) = "FN_TYPE" THEN decomposeBinder(m, expr1, expr2)
    ELSE IF Kind(expr1) = "LAMBDA" /\ Kind(expr2) = "LAMBDA" THEN decomposeBinder(m, expr1, expr2)
    ELSE <<m, FALSE>>

evaluateEqualConstraint(m, expr1, expr2) ==
    IF Kind(expr1) = "UNKNOWN" THEN assignUnknown(m, expr1, expr2)
    ELSE IF Kind(expr2) = "UNKNOWN" THEN assignUnknown(m, expr2, expr1)
    ELSE equalRigid(m, expr1, expr2)

\* setUnknown that writes the value whether or not the target has one
setUnknownOverwrite(m, target, value) ==
    IF ~freeQ(m, value, <<"is", target>>) THEN <<m, FALSE>>
    ELSE With(IF ~IsNil(m.unknowns[target].type)
              THEN With(getType(m, value), LAMBDA t :
                        addEqualConstraint(t[1], m.unknowns[target].type, t[2]))
              ELSE m,
              LAMBDA m1 : << [m1 EXCEPT !.unknowns[target].value = value], TRUE >>)

\* the target is the index of an Unknown
setUnknown(m, target, value) ==
    IF ~freeQ(m, value, <<"is", target>>) THEN <<m, FALSE>>
    ELSE With(IF ~IsNil(m.unknowns[target].type)
              THEN With(getType(m, value), LAMBDA t :
                        addEqualConstraint(t[1], m.unknowns[target].type, t[2]))
              ELSE m,
              LAMBDA m1 :
         IF IsNil(m.unknowns[target].value)
         THEN << [m1 EXCEPT !.unknowns[target].value = value], TRUE >>
         ELSE << addEqualConstraint(m1, m.unknowns[target].value, value), TRUE >>)

\* Nil is "undefined"
evaluateFnTypeType(expr1, expr2) ==
    IF Kind(expr1) = "CALL" /\ Kind(expr2) = "CALL" /\ expr1[2] = type /\ expr2[2] = type
    THEN CallExpression(type, makeLevelMax(expr1[3], expr2[3]), 0)
    ELSE Nil

\* equalEvaluated that does not put a constraint it cannot solve back
equalEvaluatedDropped(m, con, expr1, expr2) ==
    With(evaluateEqualConstraint(m, expr1, expr2), LAMBDA r :
    IF r[2] \/ r[1].panicked THEN r
    ELSE IF sameQ(r[1], expr1, expr2) THEN <<r[1], TRUE>>
    ELSE IF expr1 # con.expr1 \/ expr2 # con.expr2
    THEN <<addEqualConstraint(r[1], expr1, expr2), TRUE>>
    ELSE <<r[1], FALSE>>)

\* evaluateConstraint (analyse.ts:1329-1395), one operator per case of its
\* switch
equalEvaluated(m, con, expr1, expr2) ==
    With(evaluateEqualConstraint(m, expr1, expr2), LAMBDA r :
    IF r[2] \/ r[1].panicked THEN r
    ELSE IF sameQ(r[1], expr1, expr2) THEN <<r[1], TRUE>>
    ELSE IF expr1 # con.expr1 \/ expr2 # con.expr2
    THEN <<addEqualConstraint(r[1], expr1, expr2), TRUE>>
    ELSE <<add(r[1], con), FALSE>>)

evaluateConstraintEqual(m, con) ==
    With(evaluate(m, con.expr1), LAMBDA x1 :
    With(evaluate(x1[1], con.expr2), LAMBDA x2 :
    equalEvaluated(x2[1], con, x1[2], x2[2])))

evaluateConstraintTypeof(m, con) ==
    IF IsNil(m.unknowns[con.expr1[2]].value) THEN <<add(m, con), FALSE>>
    ELSE With(getType(m, con.expr1), LAMBDA t :
         With(setUnknown(t[1], con.target, t[2]), LAMBDA r :
         IF r[2] THEN r ELSE <<add(r[1], con), FALSE>>))

evaluateConstraintFnTypeType(m, con) ==
    With(evaluate(m, con.expr1), LAMBDA t1 :
    With(evaluate(t1[1], con.expr2), LAMBDA t2 :
    With(evaluateFnTypeType(t1[2], t2[2]), LAMBDA ty :
    IF ~IsNil(ty)
    THEN With(setUnknown(t2[1], con.target, ty), LAMBDA r :
              <<IF r[2] THEN r[1] ELSE pushErrored(r[1], con), TRUE>>)
    ELSE IF t1[2] # con.expr1 \/ t2[2] # con.expr2
    THEN <<add(t2[1], [con EXCEPT !.expr1 = t1[2], !.expr2 = t2[2], !.id = 0]), TRUE>>
    ELSE <<add(t2[1], con), FALSE>>)))

evaluateConstraintEqualWithReplace(m, con) ==
    IF IsNil(m.unknowns[con.expr1[2]].value) THEN <<add(m, con), FALSE>>
    ELSE With(replaceScopeVariables(m, m.unknowns[con.expr1[2]].value, con.replaces, TRUE),
              LAMBDA rep :
         With(setUnknown(rep[1], con.target, rep[2]), LAMBDA r :
         <<IF r[2] THEN r[1] ELSE pushErrored(r[1], con), TRUE>>))

\* the switch of evaluateConstraint (analyse.ts:1333-1394)
evaluateConstraint(m, con) ==
    CASE con.kind = "EQUAL" -> evaluateConstraintEqual(m, con)
      [] con.kind = "TYPEOF" -> evaluateConstraintTypeof(m, con)
      [] con.kind = "FN_TYPE_TYPE" -> evaluateConstraintFnTypeType(m, con)
      [] con.kind = "EQUAL_WITH_REPLACE" -> evaluateConstraintEqualWithReplace(m, con)

\* collectDiagnostics (analyse.ts:1423-1433, 1854-1857): one
\* UNRESOLVED_CONSTRAINT per constraint, the active ones first
UnresolvedConstraint(con) == [kind |-> "UNRESOLVED_CONSTRAINT", con |-> con.id, unknown |-> 0]
Uninferred(u) == [kind |-> "UNINFERRED", con |-> 0, unknown |-> u]

collectDiagnostics(m) ==
    [i \in 1..Len(m.constraints) |-> UnresolvedConstraint(m.constraints[i])]
    \o [i \in 1..Len(m.erroredConstraints) |-> UnresolvedConstraint(m.erroredConstraints[i])]

\* convertRule (analyse.ts:1455-1472): the map over lhs makes a Variable of
\* every unresolved pattern Unknown and stores it as the Unknown's value.
\* The result is <<memory, expression>>.
RECURSIVE convertPattern(_, _)
convertPattern(m, expr) ==
    CASE Kind(expr) = "UNKNOWN" ->
            IF ~IsNil(m.unknowns[expr[2]].value)
            THEN convertPattern(m, m.unknowns[expr[2]].value)
            ELSE IF m.unknowns[expr[2]].isPattern
            THEN IF IsNil(m.unknowns[expr[2]].type) THEN <<panic(m), expr>>
                 ELSE With(NewVariable(m, m.unknowns[expr[2]].type), LAMBDA s :
                      << [s[1] EXCEPT !.unknowns[expr[2]].value = s[2]], s[2] >>)
            ELSE <<m, expr>>
      [] Kind(expr) = "CALL" ->
            With(convertPattern(m, expr[2]), LAMBDA f :
            With(convertPattern(f[1], expr[3]), LAMBDA a :
            <<a[1], CallExpression(f[2], a[2], expr[4])>>))
      [] Kind(expr) \in {"FN_TYPE", "LAMBDA"} ->
            With(convertPattern(m, expr[3]), LAMBDA i :
            With(convertPattern(i[1], expr[4]), LAMBDA o :
            <<o[1], <<expr[1], expr[2], i[2], o[2], expr[5]>> >>))
      [] OTHER -> <<m, expr>>

\* the result is <<memory, <<lhs, rhs>> >>
convertRule(m, lhs, rhs) ==
    With(convertPattern(m, lhs), LAMBDA l : <<l[1], <<l[2], copyExpression(l[1], rhs)>> >>)

\* ------------------------------------------------------------------------
\* HIR registers (irgen.ts:5-110).  Register %k is element k+1 of the
\* register array; 0 is an absent register reference.
\* ------------------------------------------------------------------------
HIRReg ==
    [kind |-> "", fn |-> 0, arg |-> 0, argType |-> 0, body |-> 0, inputType |-> 0,
     outputType |-> 0, lhs |-> 0, rhs |-> 0, symbol |-> 0, type |-> 0, value |-> 0,
     parent |-> 0, color |-> 0, isPattern |-> FALSE, isUpValue |-> FALSE,
     name |-> "", flags |-> 0, expr |-> Nil]

HIRExpr(expr) == [HIRReg EXCEPT !.kind = "EXPR", !.expr = expr]
HIRRoot == [HIRReg EXCEPT !.kind = "ROOT"]
HIRNumber(value) == [HIRReg EXCEPT !.kind = "NUMBER", !.value = value]
HIRSymbol(parent, name, flags) ==
    [HIRReg EXCEPT !.kind = "SYMBOL", !.parent = parent, !.name = name, !.flags = flags]
HIRSymbolType(symbol, ty) == [HIRReg EXCEPT !.kind = "SYMBOL_TYPE", !.symbol = symbol, !.type = ty]
HIRSymbolAssign(symbol, value) ==
    [HIRReg EXCEPT !.kind = "SYMBOL_ASSIGN", !.symbol = symbol, !.value = value]
HIRSymbolRule(symbol, lhs, rhs, isUpValue) ==
    [HIRReg EXCEPT !.kind = "SYMBOL_RULE", !.symbol = symbol, !.lhs = lhs, !.rhs = rhs,
                   !.isUpValue = isUpValue]
HIRCall(fn, arg, color, isPattern) ==
    [HIRReg EXCEPT !.kind = "CALL", !.fn = fn, !.arg = arg, !.color = color, !.isPattern = isPattern]
HIRFnType(arg, inputType, outputType, color) ==
    [HIRReg EXCEPT !.kind = "FN_TYPE", !.arg = arg, !.inputType = inputType,
                   !.outputType = outputType, !.color = color]
HIRLambda(arg, body, color) ==
    [HIRReg EXCEPT !.kind = "LAMBDA", !.arg = arg, !.body = body, !.color = color]
HIRMemberAccess(lhs, name) == [HIRReg EXCEPT !.kind = "MEMBER_ACCESS", !.lhs = lhs, !.name = name]
HIRUnknown(ty) == [HIRReg EXCEPT !.kind = "UNKNOWN", !.type = ty]
HIRVariable(ty) == [HIRReg EXCEPT !.kind = "VARIABLE", !.type = ty]

\* ------------------------------------------------------------------------
\* HIRSolver poll actions (analyse.ts:1487-1825).  A poll takes the memory,
\* the resolved array, the closure state of its register, the register index
\* and the register; it gives the same back with the PollResult.
\* ------------------------------------------------------------------------
HIRResolvedData == [type |-> Nil, value |-> Nil]
ClosureState == [tmpInsertedFn |-> Nil, args |-> <<>>, bodyType |-> Nil, hasTypeConstraint |-> FALSE]

PollOutcome(m, res, cl, ret) == [m |-> m, res |-> res, cl |-> cl, ret |-> ret]

\* the while loop of pollCallAction (analyse.ts:1500-1505); <<memory, fn>>
RECURSIVE insertTmp(_, _, _, _)
insertTmp(m, fn, fnType, value) ==
    IF Kind(fnType) = "FN_TYPE" /\ fnType[5] # value.color
    THEN With(makeUnknown(m, fnType[3], value.isPattern), LAMBDA tmp :
         With(getType(tmp[1], CallExpression(fn, tmp[2], fnType[5])), LAMBDA t :
         insertTmp(t[1], CallExpression(fn, tmp[2], fnType[5]), t[2], value)))
    ELSE <<m, fn>>

\* pollCallAction once tmpInsertedFn is set (analyse.ts:1509-1521)
pollCallArg(m, res, cl, index, value, ret) ==
    With(getType(m, cl.tmpInsertedFn), LAMBDA t :
    With(unwrapUnknown(t[1], t[2]), LAMBDA fnType :
    IF Kind(fnType) # "FN_TYPE" THEN PollOutcome(panic(t[1]), res, cl, ret)
    ELSE IF IsNil(res[value.arg].value)
    THEN IF IsNil(res[value.arg].type)
         THEN PollOutcome(t[1], [res EXCEPT ![value.arg].type = fnType[3]], cl, "CHANGED")
         ELSE PollOutcome(t[1], res, cl, ret)
    ELSE With(getType(t[1], res[value.arg].value), LAMBDA ta :
         PollOutcome(addEqualConstraint(ta[1], ta[2], fnType[3]),
                     [res EXCEPT ![index].value =
                             CallExpression(cl.tmpInsertedFn, res[value.arg].value, value.color)],
                     cl, "DONE"))))

\* pollCallAction that inserts the implicit arguments in every poll
pollCallActionReinserting(m, res, cl, index, value) ==
    With(unwrapUnknownNullable(m, res[value.fn].value), LAMBDA fn :
    IF IsNil(fn) THEN PollOutcome(m, res, cl, "UNCHANGED")
    ELSE With(getType(m, fn), LAMBDA t :
         With(unwrapUnknown(t[1], t[2]), LAMBDA fnType :
         IF ~checkFnTypeColor(t[1], fnType, value.color)
         THEN PollOutcome(t[1], res, cl, "UNCHANGED")
         ELSE With(insertTmp(t[1], fn, fnType, value), LAMBDA ins :
              pollCallArg(ins[1], res, [cl EXCEPT !.tmpInsertedFn = ins[2]],
                          index, value, "CHANGED")))))

pollCallAction(m, res, cl, index, value) ==
    IF ~IsNil(cl.tmpInsertedFn) THEN pollCallArg(m, res, cl, index, value, "UNCHANGED")
    ELSE With(unwrapUnknownNullable(m, res[value.fn].value), LAMBDA fn :
         IF IsNil(fn) THEN PollOutcome(m, res, cl, "UNCHANGED")
         ELSE With(getType(m, fn), LAMBDA t :
              With(unwrapUnknown(t[1], t[2]), LAMBDA fnType :
              IF ~checkFnTypeColor(t[1], fnType, value.color)
              THEN PollOutcome(t[1], res, cl, "UNCHANGED")
              ELSE With(insertTmp(t[1], fn, fnType, value), LAMBDA ins :
                   pollCallArg(ins[1], res, [cl EXCEPT !.tmpInsertedFn = ins[2]],
                               index, value, "CHANGED")))))

\* analyse.ts:1540-1548
fnTypeResolved(m, res, cl, index, value, arg) ==
    PollOutcome(m, [res EXCEPT ![index].value =
                        FnTypeExpression(arg, res[value.inputType].value,
                                         res[value.outputType].value, value.color)],
                cl, "DONE")

pollFnTypeAction(m, res, cl, index, value) ==
    IF IsNil(res[value.inputType].value) \/ IsNil(res[value.outputType].value)
    THEN PollOutcome(m, res, cl, "UNCHANGED")
    ELSE IF value.arg = 0 THEN fnTypeResolved(m, res, cl, index, value, Nil)
    ELSE IF IsNil(res[value.arg].value) THEN PollOutcome(m, res, cl, "UNCHANGED")
    ELSE IF Kind(res[value.arg].value) # "VARIABLE" THEN PollOutcome(panic(m), res, cl, "UNCHANGED")
    ELSE fnTypeResolved(m, res, cl, index, value, res[value.arg].value)

pollMemberAccessAction(m, res, cl, index, value) ==
    With(unwrapUnknownNullable(m, res[value.lhs].value), LAMBDA lhs :
    IF IsNil(lhs) THEN PollOutcome(m, res, cl, "UNCHANGED")
    ELSE IF Kind(lhs) = "SYMBOL" /\ subSymbol(m, lhs[2], value.name) # 0
    THEN PollOutcome(m, [res EXCEPT ![index].value =
                             SymbolExpression(subSymbol(m, lhs[2], value.name))],
                     cl, "DONE")
    ELSE PollOutcome(panic(m), res, cl, "UNCHANGED"))

LambdaHead(arg, argType, color) == [arg |-> arg, argType |-> argType, color |-> color]

\* the while loop of pollLambdaAction (analyse.ts:1593-1610);
\* <<memory, args, type>>
RECURSIVE skipImplicit(_, _, _, _)
skipImplicit(m, args, ty, value) ==
    IF value.color # ty[5]
    THEN With(NewVariable(m, ty[3]), LAMBDA newArg :
         With(IF IsNil(ty[2]) THEN <<newArg[1], ty[4]>>
              ELSE replaceScopeVariable(newArg[1], ty[4], ty[2], newArg[2], TRUE), LAMBDA out :
         IF Kind(out[2]) # "FN_TYPE"
         THEN <<panic(out[1]), Append(args, LambdaHead(newArg[2], ty[3], ty[5])), out[2]>>
         ELSE skipImplicit(out[1], Append(args, LambdaHead(newArg[2], ty[3], ty[5])),
                           out[2], value)))
    ELSE <<m, args, ty>>

\* the for loop of pollLambdaAction (analyse.ts:1641-1651): the last head is
\* the innermost Lambda
RECURSIVE wrapLambdas(_, _)
wrapLambdas(body, args) ==
    IF args = <<>> THEN body
    ELSE wrapLambdas(LambdaExpression(args[Len(args)].arg, args[Len(args)].argType, body,
                                      args[Len(args)].color),
                     SubSeq(args, 1, Len(args) - 1))

\* pollLambdaAction once bodyType is set (analyse.ts:1632-1653)
pollLambdaBody(m, res, cl, index, value, ret) ==
    IF IsNil(res[value.body].value)
    THEN IF IsNil(res[value.body].type)
         THEN PollOutcome(m, [res EXCEPT ![value.body].type = cl.bodyType], cl, "CHANGED")
         ELSE PollOutcome(m, res, cl, ret)
    ELSE With(getType(m, res[value.body].value), LAMBDA tb :
         PollOutcome(addEqualConstraint(tb[1], tb[2], cl.bodyType),
                     [res EXCEPT ![index].value = wrapLambdas(res[value.body].value, cl.args)],
                     cl, "DONE"))

\* analyse.ts:1611-1630: the head of this Lambda; arg0 is the resolved
\* argument or Nil, ty the FnType the while loop ended with
pollLambdaHead(m, res, cl, index, value, arg0, args, ty) ==
    IF ~IsNil(arg0) \/ ~IsNil(ty[2])
    THEN With(IF IsNil(arg0) THEN NewVariable(m, ty[3]) ELSE <<m, arg0>>, LAMBDA arg :
         With(IF ~IsNil(ty[2]) THEN replaceScopeVariable(arg[1], ty[4], ty[2], arg[2], TRUE)
              ELSE <<arg[1], ty[4]>>, LAMBDA bt :
         pollLambdaBody(bt[1], res,
                        [cl EXCEPT !.args = Append(args, LambdaHead(arg[2], ty[3], value.color)),
                                   !.bodyType = bt[2]],
                        index, value, "CHANGED")))
    ELSE pollLambdaBody(m, res,
                        [cl EXCEPT !.args = Append(args, LambdaHead(Nil, ty[3], value.color)),
                                   !.bodyType = ty[4]],
                        index, value, "CHANGED")

\* analyse.ts:1589-1610
pollLambdaType(m, res, cl, index, value, arg0) ==
    With(unwrapUnknownNullable(m, res[index].type), LAMBDA type0 :
    IF IsNil(type0) \/ Kind(type0) # "FN_TYPE" \/ ~checkFnTypeColor(m, type0, value.color)
    THEN PollOutcome(m, res, cl, "UNCHANGED")
    ELSE With(skipImplicit(m, cl.args, type0, value), LAMBDA loop :
         IF loop[1].panicked
         THEN PollOutcome(loop[1], res, [cl EXCEPT !.args = loop[2]], "UNCHANGED")
         ELSE pollLambdaHead(loop[1], res, cl, index, value, arg0, loop[2], loop[3])))

pollLambdaAction(m, res, cl, index, value) ==
    IF ~IsNil(cl.bodyType) THEN pollLambdaBody(m, res, cl, index, value, "UNCHANGED")
    ELSE IF value.arg # 0 /\ IsNil(res[value.arg].value) THEN PollOutcome(m, res, cl, "UNCHANGED")
    ELSE IF value.arg # 0 /\ Kind(res[value.arg].value) # "VARIABLE"
    THEN PollOutcome(panic(m), res, cl, "UNCHANGED")
    ELSE IF value.argType # 0 /\ IsNil(res[value.argType].value)
    THEN PollOutcome(m, res, cl, "UNCHANGED")
    ELSE pollLambdaType(m, res, cl, index, value,
                        IF value.arg # 0 THEN res[value.arg].value ELSE Nil)


\* analyse.ts:1682-1695: symbol is the index of the Symbol
installRule(m, res, cl, index, value, symbol) ==
    With(convertRule(m, res[value.lhs].value, res[value.rhs].value), LAMBDA rule :
    IF rule[1].panicked THEN PollOutcome(rule[1], res, cl, "UNCHANGED")
    ELSE PollOutcome(
             IF value.isUpValue
             THEN [rule[1] EXCEPT !.symbols[symbol].upValues = Append(@, rule[2])]
             ELSE [rule[1] EXCEPT !.symbols[symbol].downValues = Append(@, rule[2])],
             [res EXCEPT ![index].value = unit], cl, "DONE"))

pollSymbolRuleAction(m, res, cl, index, value) ==
    IF IsNil(res[value.lhs].value) \/ IsNil(res[value.symbol].value)
    THEN PollOutcome(m, res, cl, "UNCHANGED")
    ELSE IF Kind(res[value.symbol].value) # "SYMBOL" THEN PollOutcome(panic(m), res, cl, "UNCHANGED")
    ELSE IF IsNil(res[value.rhs].value)
    THEN IF IsNil(res[value.rhs].type)
         THEN With(getType(m, res[value.lhs].value), LAMBDA tl :
              PollOutcome(tl[1], [res EXCEPT ![value.rhs].type = tl[2]], cl, "CHANGED"))
         ELSE PollOutcome(m, res, cl, "UNCHANGED")
    ELSE IF ~cl.hasTypeConstraint
    THEN PollOutcome(addEqualTypes(m, res[value.lhs].value, res[value.rhs].value), res,
                     [cl EXCEPT !.hasTypeConstraint = TRUE], "CHANGED")
    ELSE IF containsConstraintUnknown(m, res[value.lhs].value)
            \/ containsConstraintUnknown(m, res[value.rhs].value)
    THEN PollOutcome(m, res, cl, "UNCHANGED")
    ELSE installRule(m, res, cl, index, value, res[value.symbol].value[2])

pollExprAction(m, res, cl, index, value) ==
    PollOutcome(m, [res EXCEPT ![index].value = value.expr], cl, "DONE")

pollNumberAction(m, res, cl, index, value) ==
    IF res[index].type = numberType
    THEN PollOutcome(m, [res EXCEPT ![index].value = NumberExpression(value.value, FALSE)], cl, "DONE")
    ELSE IF res[index].type = levelType
    THEN PollOutcome(m, [res EXCEPT ![index].value = NumberExpression(value.value, TRUE)], cl, "DONE")
    ELSE PollOutcome(m, res, cl, "UNCHANGED")

pollRootAction(m, res, cl, index, value) ==
    PollOutcome(m, [res EXCEPT ![index].value = root], cl, "DONE")

\* addEqualConstraint(getType(type0), makeUnknownUniverse())
\* (analyse.ts:1730, 1750, 1812)
addUniverseConstraint(m, type0) ==
    With(getType(m, type0), LAMBDA t :
    With(makeUnknownUniverse(t[1]), LAMBDA u :
    addEqualConstraint(u[1], t[2], u[2])))

\* the type of a Variable or Unknown register (analyse.ts:1724-1734,
\* 1744-1754); <<memory, type>>
declaredType(m, res, value) ==
    IF value.type # 0
    THEN <<addUniverseConstraint(m, res[value.type].value), res[value.type].value>>
    ELSE makeUnknownType(m)

pollVariableAction(m, res, cl, index, value) ==
    IF value.type # 0 /\ IsNil(res[value.type].value) THEN PollOutcome(m, res, cl, "UNCHANGED")
    ELSE With(declaredType(m, res, value), LAMBDA ty :
         With(NewVariable(ty[1], ty[2]), LAMBDA v :
         PollOutcome(v[1], [res EXCEPT ![index].value = v[2]], cl, "DONE")))

pollUnknownAction(m, res, cl, index, value) ==
    IF value.type # 0 /\ IsNil(res[value.type].value) THEN PollOutcome(m, res, cl, "UNCHANGED")
    ELSE With(declaredType(m, res, value), LAMBDA ty :
         With(makeUnknown(ty[1], ty[2], FALSE), LAMBDA v :
         PollOutcome(v[1], [res EXCEPT ![index].value = v[2]], cl, "DONE")))

\* analyse.ts:1771-1780: p is the index of the parent Symbol
symbolResolved(m, res, cl, index, value, p) ==
    With(IF HasFlag(value.flags, ALLOW_DEF_TYPE) \/ HasFlag(value.flags, ALLOW_ASSIGNMENT)
         THEN makeUnknownType(m) ELSE <<m, untyped>>, LAMBDA ty :
    PollOutcome([ty[1] EXCEPT !.symbols = Append(@, SymbolData(value.name, p, value.flags, ty[2]))],
                [res EXCEPT ![index].value = SymbolExpression(Len(ty[1].symbols) + 1)],
                cl, "DONE"))

pollSymbolAction(m, res, cl, index, value) ==
    IF value.parent = 0 THEN symbolResolved(m, res, cl, index, value, root[2])
    ELSE IF IsNil(res[value.parent].value) THEN PollOutcome(m, res, cl, "UNCHANGED")
    ELSE IF Kind(res[value.parent].value) # "SYMBOL" THEN PollOutcome(panic(m), res, cl, "UNCHANGED")
    ELSE symbolResolved(m, res, cl, index, value, res[value.parent].value[2])

\* analyse.ts:1793-1800: symbol is the index of the Symbol, which has no
\* value yet
symbolAssigned(m, res, cl, index, symbol, v) ==
    With(getType([m EXCEPT !.symbols[symbol].value = v], v), LAMBDA t :
    PollOutcome(IF IsNil(m.symbols[symbol].type)
                THEN [t[1] EXCEPT !.symbols[symbol].type = t[2]]
                ELSE addEqualConstraint(t[1], m.symbols[symbol].type, t[2]),
                [res EXCEPT ![index].value = unit], cl, "DONE"))

\* pollSymbolAssignAction without assert(symbol.value === void 0)
pollSymbolAssignActionUnasserted(m, res, cl, index, value) ==
    IF IsNil(res[value.symbol].value) \/ IsNil(res[value.value].value)
    THEN PollOutcome(m, res, cl, "UNCHANGED")
    ELSE IF Kind(res[value.symbol].value) # "SYMBOL" THEN PollOutcome(panic(m), res, cl, "UNCHANGED")
    ELSE IF ~HasFlag(m.symbols[res[value.symbol].value[2]].flags, ALLOW_ASSIGNMENT)
    THEN PollOutcome(m, res, cl, "UNCHANGED")
    ELSE symbolAssigned(m, res, cl, index, res[value.symbol].value[2], res[value.value].value)

pollSymbolAssignAction(m, res, cl, index, value) ==
    IF IsNil(res[value.symbol].value) \/ IsNil(res[value.value].value)
    THEN PollOutcome(m, res, cl, "UNCHANGED")
    ELSE IF Kind(res[value.symbol].value) # "SYMBOL" THEN PollOutcome(panic(m), res, cl, "UNCHANGED")
    ELSE IF ~HasFlag(m.symbols[res[value.symbol].value[2]].flags, ALLOW_ASSIGNMENT)
    THEN PollOutcome(m, res, cl, "UNCHANGED")
    ELSE IF ~IsNil(m.symbols[res[value.symbol].value[2]].value)
    THEN PollOutcome(panic(m), res, cl, "UNCHANGED")
    ELSE symbolAssigned(m, res, cl, index, res[value.symbol].value[2], res[value.value].value)

\* analyse.ts:1812-1819: symbol is the index of the Symbol
symbolTyped(m, res, cl, index, symbol, ty) ==
    With(addUniverseConstraint(m, ty), LAMBDA m1 :
    PollOutcome(IF IsNil(m.symbols[symbol].type)
                THEN [m1 EXCEPT !.symbols[symbol].type = ty]
                ELSE addEqualConstraint(m1, m.symbols[symbol].type, ty),
                [res EXCEPT ![index].value = unit], cl, "DONE"))

pollSymbolTypeAction(m, res, cl, index, value) ==
    IF IsNil(res[value.symbol].value) \/ IsNil(res[value.type].value)
    THEN PollOutcome(m, res, cl, "UNCHANGED")
    ELSE IF Kind(res[value.symbol].value) # "SYMBOL" THEN PollOutcome(panic(m), res, cl, "UNCHANGED")
    ELSE IF ~HasFlag(m.symbols[res[value.symbol].value[2]].flags, ALLOW_DEF_TYPE)
    THEN PollOutcome(m, res, cl, "UNCHANGED")
    ELSE symbolTyped(m, res, cl, index, res[value.symbol].value[2], res[value.type].value)

\* ------------------------------------------------------------------------
\* Programs: the register arrays irgen (irgen.ts:235-515) emits.  The
\* initial scope (analyse.ts:298-303) gives %0 = Type and %1 = builtin, and
\* %2 is the root; register %k is element k+1.
\* ------------------------------------------------------------------------
Prelude == << HIRExpr(type), HIRExpr(builtin), HIRRoot >>

\*   id: (T: Type(0)) -> T -> T = \T \x x
ProgId == Prelude \o <<
    HIRSymbol(3, "id", 3),              \* %3
    HIRNumber(0),                       \* %4
    HIRCall(1, 5, 0, FALSE),            \* %5  Type(0)
    HIRVariable(6),                     \* %6  T: %5
    HIRFnType(0, 7, 7, 0),              \* %7  T -> T
    HIRFnType(7, 6, 8, 0),              \* %8  (T: Type(0)) -> %7
    HIRSymbolType(4, 9),                \* %9
    HIRVariable(0),                     \* %10 T
    HIRVariable(0),                     \* %11 x
    HIRLambda(12, 12, 0),               \* %12 \x x
    HIRLambda(11, 13, 0),               \* %13 \T %12
    HIRSymbolAssign(4, 14) >>           \* %14

\*   x = Type
\*   x = builtin
ProgTwoAssign == Prelude \o <<
    HIRSymbol(3, "x", 2),               \* %3
    HIRSymbolAssign(4, 1),              \* %4
    HIRSymbolAssign(4, 2) >>            \* %5

\*   y = builtin.nothing
ProgMissingMember == Prelude \o <<
    HIRSymbol(3, "y", 2),               \* %3
    HIRMemberAccess(2, "nothing"),      \* %4
    HIRSymbolAssign(4, 5) >>            \* %5

\*   f: builtin.Level -> builtin.Level
\*   f(0) = 0
\*   f(?x) = x
ProgRules == Prelude \o <<
    HIRSymbol(3, "f", 5),               \* %3
    HIRMemberAccess(2, "Level"),        \* %4
    HIRMemberAccess(2, "Level"),        \* %5
    HIRFnType(0, 5, 6, 0),              \* %6
    HIRSymbolType(4, 7),                \* %7
    HIRNumber(0),                       \* %8
    HIRCall(4, 9, 0, TRUE),             \* %9  f(0)
    HIRNumber(0),                       \* %10
    HIRSymbolRule(4, 10, 11, FALSE),    \* %11
    HIRVariable(0),                     \* %12 ?x
    HIRCall(4, 13, 0, TRUE),            \* %13 f(?x)
    HIRSymbolRule(4, 14, 13, FALSE) >>  \* %14

\*   s: builtin.Level -> _
\*   f: s(0) -> builtin.Level
\*   x = f(s(1))
\*   y = f(s(2))
ProgLoop == Prelude \o <<
    HIRSymbol(3, "s", 1),               \* %3
    HIRSymbol(3, "f", 1),               \* %4
    HIRSymbol(3, "x", 2),               \* %5
    HIRSymbol(3, "y", 2),               \* %6
    HIRMemberAccess(2, "Level"),        \* %7
    HIRUnknown(0),                      \* %8
    HIRFnType(0, 8, 9, 0),              \* %9
    HIRSymbolType(4, 10),               \* %10
    HIRNumber(0),                       \* %11
    HIRCall(4, 12, 0, FALSE),           \* %12 s(0)
    HIRMemberAccess(2, "Level"),        \* %13
    HIRFnType(0, 13, 14, 0),            \* %14
    HIRSymbolType(5, 15),               \* %15
    HIRNumber(1),                       \* %16
    HIRCall(4, 17, 0, FALSE),           \* %17 s(1)
    HIRCall(5, 18, 0, FALSE),           \* %18 f(s(1))
    HIRSymbolAssign(6, 19),             \* %19
    HIRNumber(2),                       \* %20
    HIRCall(4, 21, 0, FALSE),           \* %21 s(2)
    HIRCall(5, 22, 0, FALSE),           \* %22 f(s(2))
    HIRSymbolAssign(7, 23) >>           \* %23

\*   x = _
ProgHole == Prelude \o <<
    HIRSymbol(3, "x", 2),               \* %3
    HIRUnknown(0),                      \* %4
    HIRSymbolAssign(4, 5) >>            \* %5

\*   a: builtin.Level = Type
ProgMismatch == Prelude \o <<
    HIRSymbol(3, "a", 3),               \* %3
    HIRMemberAccess(2, "Level"),        \* %4
    HIRSymbolType(4, 5),                \* %5
    HIRSymbolAssign(4, 1) >>            \* %6

\*   a = _ -> builtin.Level
ProgHoleType == Prelude \o <<
    HIRSymbol(3, "a", 2),               \* %3
    HIRUnknown(0),                      \* %4
    HIRMemberAccess(2, "Level"),        \* %5
    HIRFnType(0, 5, 6, 0),              \* %6
    HIRSymbolAssign(4, 7) >>            \* %7

\*   g: (T: Type(0)) -> _
\*   a = g(builtin.Level)
ProgDependentHole == Prelude \o <<
    HIRSymbol(3, "g", 1),               \* %3
    HIRSymbol(3, "a", 2),               \* %4
    HIRNumber(0),                       \* %5
    HIRCall(1, 6, 0, FALSE),            \* %6  Type(0)
    HIRVariable(7),                     \* %7  T: %6
    HIRUnknown(0),                      \* %8
    HIRFnType(8, 7, 9, 0),              \* %9
    HIRSymbolType(4, 10),               \* %10
    HIRMemberAccess(2, "Level"),        \* %11
    HIRCall(4, 12, 0, FALSE),           \* %12
    HIRSymbolAssign(5, 13) >>           \* %13

\*   ap: (h: builtin.Level -> builtin.Level) -> builtin.Level
\*   z = ap(\x x)
ProgLambdaArg == Prelude \o <<
    HIRSymbol(3, "ap", 1),              \* %3
    HIRSymbol(3, "z", 2),               \* %4
    HIRMemberAccess(2, "Level"),        \* %5
    HIRMemberAccess(2, "Level"),        \* %6
    HIRFnType(0, 6, 7, 0),              \* %7
    HIRVariable(8),                     \* %8  h: %7
    HIRMemberAccess(2, "Level"),        \* %9
    HIRFnType(9, 8, 10, 0),             \* %10
    HIRSymbolType(4, 11),               \* %11
    HIRVariable(0),                     \* %12 x
    HIRLambda(13, 13, 0),               \* %13 \x x
    HIRCall(4, 14, 0, FALSE),           \* %14
    HIRSymbolAssign(5, 15) >>           \* %15

\*   g: [n: builtin.Level] -> builtin.Level -> builtin.Level
\*   g(0) = 0
ProgImplicit == Prelude \o <<
    HIRSymbol(3, "g", 5),               \* %3
    HIRMemberAccess(2, "Level"),        \* %4
    HIRVariable(5),                     \* %5  n: %4
    HIRMemberAccess(2, "Level"),        \* %6
    HIRMemberAccess(2, "Level"),        \* %7
    HIRFnType(0, 7, 8, 0),              \* %8
    HIRFnType(6, 5, 9, 1),              \* %9  [n: %4] -> %8
    HIRSymbolType(4, 10),               \* %10
    HIRNumber(0),                       \* %11
    HIRCall(4, 12, 0, TRUE),            \* %12 g(0)
    HIRNumber(0),                       \* %13
    HIRSymbolRule(4, 13, 14, FALSE) >>  \* %14

\*   g: [n: builtin.Level] -> [m: builtin.Level] -> builtin.Level -> builtin.Level
\*   x = g(0)
ProgImplicitTwo == Prelude \o <<
    HIRSymbol(3, "g", 1),               \* %3
    HIRSymbol(3, "x", 2),               \* %4
    HIRMemberAccess(2, "Level"),        \* %5
    HIRVariable(6),                     \* %6  n: %5
    HIRMemberAccess(2, "Level"),        \* %7
    HIRVariable(8),                     \* %8  m: %7
    HIRMemberAccess(2, "Level"),        \* %9
    HIRMemberAccess(2, "Level"),        \* %10
    HIRFnType(0, 10, 11, 0),            \* %11
    HIRFnType(9, 8, 12, 1),             \* %12 [m: %7] -> %11
    HIRFnType(7, 6, 13, 1),             \* %13 [n: %5] -> %12
    HIRSymbolType(4, 14),               \* %14
    HIRNumber(0),                       \* %15
    HIRCall(4, 16, 0, FALSE),           \* %16 g(0)
    HIRSymbolAssign(5, 17) >>           \* %17

\*   P: builtin.Level -> Type(0)
\*   app: (f: builtin.Level -> builtin.Level) -> P(f(0))
\*   r: builtin.Level -> P(0)
\*   r(0) = app(\x _)
ProgDeferredRule == Prelude \o <<
    HIRSymbol(3, "P", 1),               \* %3
    HIRSymbol(3, "app", 1),             \* %4
    HIRSymbol(3, "r", 5),               \* %5
    HIRMemberAccess(2, "Level"),        \* %6
    HIRNumber(0),                       \* %7
    HIRCall(1, 8, 0, FALSE),            \* %8  Type(0)
    HIRFnType(0, 7, 9, 0),              \* %9
    HIRSymbolType(4, 10),               \* %10
    HIRMemberAccess(2, "Level"),        \* %11
    HIRMemberAccess(2, "Level"),        \* %12
    HIRFnType(0, 12, 13, 0),            \* %13
    HIRVariable(14),                    \* %14 f: %13
    HIRNumber(0),                       \* %15
    HIRCall(15, 16, 0, FALSE),          \* %16 f(0)
    HIRCall(4, 17, 0, FALSE),           \* %17 P(f(0))
    HIRFnType(15, 14, 18, 0),           \* %18
    HIRSymbolType(5, 19),               \* %19
    HIRMemberAccess(2, "Level"),        \* %20
    HIRNumber(0),                       \* %21
    HIRCall(4, 22, 0, FALSE),           \* %22 P(0)
    HIRFnType(0, 21, 23, 0),            \* %23
    HIRSymbolType(6, 24),               \* %24
    HIRNumber(0),                       \* %25
    HIRCall(6, 26, 0, TRUE),            \* %26 r(0)
    HIRVariable(0),                     \* %27 x
    HIRUnknown(0),                      \* %28 _
    HIRLambda(28, 29, 0),               \* %29 \x _
    HIRCall(5, 30, 0, FALSE),           \* %30 app(\x _)
    HIRSymbolRule(6, 27, 31, FALSE) >>  \* %31

\*   g: (T: Type(0)) -> _
\*   a = g(builtin.Level)(builtin.Level)
ProgHoleCallee == Prelude \o <<
    HIRSymbol(3, "g", 1),               \* %3
    HIRSymbol(3, "a", 2),               \* %4
    HIRNumber(0),                       \* %5
    HIRCall(1, 6, 0, FALSE),            \* %6  Type(0)
    HIRVariable(7),                     \* %7  T: %6
    HIRUnknown(0),                      \* %8
    HIRFnType(8, 7, 9, 0),              \* %9
    HIRSymbolType(4, 10),               \* %10
    HIRMemberAccess(2, "Level"),        \* %11
    HIRCall(4, 12, 0, FALSE),           \* %12 g(builtin.Level)
    HIRMemberAccess(2, "Level"),        \* %13
    HIRCall(13, 14, 0, FALSE),          \* %14
    HIRSymbolAssign(5, 15) >>           \* %15

\*   s: _ -> builtin.Level
\*   c: builtin.Level
\*   y = s(c)
\*   x = s(0)
ProgNumberHole == Prelude \o <<
    HIRSymbol(3, "s", 1),               \* %3
    HIRSymbol(3, "c", 1),               \* %4
    HIRSymbol(3, "y", 2),               \* %5
    HIRSymbol(3, "x", 2),               \* %6
    HIRUnknown(0),                      \* %7
    HIRMemberAccess(2, "Level"),        \* %8
    HIRFnType(0, 8, 9, 0),              \* %9
    HIRSymbolType(4, 10),               \* %10
    HIRMemberAccess(2, "Level"),        \* %11
    HIRSymbolType(5, 12),               \* %12
    HIRCall(4, 5, 0, FALSE),            \* %13 s(c)
    HIRSymbolAssign(6, 14),             \* %14
    HIRNumber(0),                       \* %15
    HIRCall(4, 16, 0, FALSE),           \* %16 s(0)
    HIRSymbolAssign(7, 17) >>           \* %17

\*   s: _ -> builtin.Level
\*   x = s(s)
ProgOccurs == Prelude \o <<
    HIRSymbol(3, "s", 1),               \* %3
    HIRSymbol(3, "x", 2),               \* %4
    HIRUnknown(0),                      \* %5
    HIRMemberAccess(2, "Level"),        \* %6
    HIRFnType(0, 6, 7, 0),              \* %7
    HIRSymbolType(4, 8),                \* %8
    HIRCall(4, 4, 0, FALSE),            \* %9  s(s)
    HIRSymbolAssign(5, 10) >>           \* %10

\*   T: Type(0)
\*   v: T
\*   w: T
\*   eq: v = w
ProgRigid == Prelude \o <<
    HIRSymbol(3, "T", 1), HIRSymbol(3, "v", 1), HIRSymbol(3, "w", 1), HIRSymbol(3, "eq", 3),
    HIRNumber(0), HIRCall(1, 8, 0, FALSE), HIRSymbolType(4, 9), HIRSymbolType(5, 4),
    HIRSymbolType(6, 4), HIRSymbolType(7, 5), HIRSymbolAssign(7, 6) >>

\*   p: _ -> builtin.Level
\*   q: _ -> builtin.Level
\*   x = p(q)
\*   y = q(p)
ProgChain == Prelude \o <<
    HIRSymbol(3, "p", 1), HIRSymbol(3, "q", 1), HIRSymbol(3, "x", 2), HIRSymbol(3, "y", 2),
    HIRUnknown(0), HIRMemberAccess(2, "Level"), HIRFnType(0, 8, 9, 0), HIRSymbolType(4, 10),
    HIRUnknown(0), HIRMemberAccess(2, "Level"), HIRFnType(0, 12, 13, 0), HIRSymbolType(5, 14),
    HIRCall(4, 5, 0, FALSE), HIRSymbolAssign(6, 16),
    HIRCall(5, 4, 0, FALSE), HIRSymbolAssign(7, 18) >>

\* the register references of a register, by field: value is a reference
\* in a SYMBOL_ASSIGN and type is one in SYMBOL_TYPE, UNKNOWN and VARIABLE
Renumbered(reg, pi(_)) ==
    [reg EXCEPT !.parent = pi(@), !.symbol = pi(@), !.fn = pi(@), !.arg = pi(@),
                !.argType = pi(@),
                !.inputType = pi(@), !.outputType = pi(@), !.body = pi(@),
                !.lhs = pi(@), !.rhs = pi(@),
                !.type = pi(@),
                !.value = IF reg.kind = "SYMBOL_ASSIGN" THEN pi(@) ELSE @]

\* the register array prog in the opposite order, every reference following
\* its register: each operand now has a higher index than its user
Reversed(prog) ==
    [i \in 1..Len(prog) |->
        Renumbered(prog[Len(prog) + 1 - i],
                   LAMBDA r : IF r = 0 THEN 0 ELSE Len(prog) + 1 - r)]

ProgImplicitTwoReversed == Reversed(ProgImplicitTwo)

Programs == << ProgId, ProgTwoAssign, ProgMissingMember, ProgRules, ProgLoop, ProgHole,
               ProgMismatch, ProgHoleType, ProgDependentHole, ProgLambdaArg,
               ProgImplicit, ProgOccurs, ProgRigid, ProgChain, ProgImplicitTwo,
               ProgDeferredRule, ProgImplicitTwoReversed, ProgHoleCallee,
               ProgNumberHole >>

\* ------------------------------------------------------------------------
\* The run of HIRSolver over one program
\* ------------------------------------------------------------------------
\* the switch of pollAction (analyse.ts:1698-1825)
pollAction(m, res, cl, index, value) ==
    CASE value.kind = "CALL" -> pollCallAction(m, res, cl, index, value)
      [] value.kind = "FN_TYPE" -> pollFnTypeAction(m, res, cl, index, value)
      [] value.kind = "EXPR" -> pollExprAction(m, res, cl, index, value)
      [] value.kind = "NUMBER" -> pollNumberAction(m, res, cl, index, value)
      [] value.kind = "ROOT" -> pollRootAction(m, res, cl, index, value)
      [] value.kind = "VARIABLE" -> pollVariableAction(m, res, cl, index, value)
      [] value.kind = "UNKNOWN" -> pollUnknownAction(m, res, cl, index, value)
      [] value.kind = "SYMBOL" -> pollSymbolAction(m, res, cl, index, value)
      [] value.kind = "SYMBOL_ASSIGN" -> pollSymbolAssignAction(m, res, cl, index, value)
      [] value.kind = "SYMBOL_TYPE" -> pollSymbolTypeAction(m, res, cl, index, value)
      [] value.kind = "SYMBOL_RULE" -> pollSymbolRuleAction(m, res, cl, index, value)
      [] value.kind = "MEMBER_ACCESS" -> pollMemberAccessAction(m, res, cl, index, value)
      [] value.kind = "LAMBDA" -> pollLambdaAction(m, res, cl, index, value)

VARIABLES
    program,      \* which register array the solver was constructed with
    memory,       \* expression arenas and the ConstraintSolver fields
    resolved,     \* HIRSolver.resolved
    actions,      \* HIRSolver.actions, as register indices
    closures,     \* the captured variables of each register's poll action
    pending,      \* iterate(): the rest of the copied action list
    changed,      \* iterate(): changed
    done,         \* evaluate(): done
    ret,          \* evaluate(): ret
    diagnostics,  \* the result of collectDiagnostics()
    installed,    \* history: <<symbol, isUpValue, register>> of each rule pushed
    pc,           \* where the run is
    call          \* the library call made on the memory, with its arguments and result

vars == <<program, memory, resolved, actions, closures, pending, changed, done, ret,
          diagnostics, installed, pc, call>>

\* no library call has been made
NoCall == [op |-> "none", args |-> <<>>, out |-> <<>>]

regs == Programs[program]

Init ==
    /\ program \in 1..Len(Programs)
    /\ memory = InitialMemory
    /\ resolved = [i \in 1..Len(regs) |-> HIRResolvedData]
    /\ actions = [i \in 1..Len(regs) |-> i]
    /\ closures = [i \in 1..Len(regs) |-> ClosureState]
    /\ pending = <<>>
    /\ changed = FALSE
    /\ done = FALSE
    /\ ret = FALSE
    /\ diagnostics = <<>>
    /\ installed = <<>>
    /\ pc = "run"
    /\ call = NoCall

\* iterate (analyse.ts:1826-1829): copy the action list and empty it
iterate ==
    /\ pc = "run"
    /\ changed' = FALSE
    /\ pending' = actions
    /\ actions' = <<>>
    /\ pc' = "poll"
    /\ UNCHANGED <<call, program, memory, resolved, closures, done, ret, diagnostics, installed>>

\* Polled that keeps the action of a poll that returned DONE
PolledKept(index, r) ==
    /\ memory' = r.m
    /\ resolved' = r.res
    /\ closures' = [closures EXCEPT ![index] = r.cl]
    /\ pending' = Tail(pending)
    /\ installed' = IF regs[index].kind = "SYMBOL_RULE" /\ r.ret = "DONE"
                    THEN Append(installed, <<r.res[regs[index].symbol].value[2],
                                             regs[index].isUpValue, index>>)
                    ELSE installed
    /\ IF r.m.panicked
       THEN pc' = "panicked" /\ UNCHANGED <<actions, changed>>
       ELSE /\ pc' = "poll"
            /\ actions' = Append(actions, index)
            /\ changed' = (changed \/ r.ret # "UNCHANGED")
    /\ UNCHANGED <<call, program, done, ret, diagnostics>>

\* Polled that does not count a poll that returned CHANGED as progress
PolledSilent(index, r) ==
    /\ memory' = r.m
    /\ resolved' = r.res
    /\ closures' = [closures EXCEPT ![index] = r.cl]
    /\ pending' = Tail(pending)
    /\ installed' = IF regs[index].kind = "SYMBOL_RULE" /\ r.ret = "DONE"
                    THEN Append(installed, <<r.res[regs[index].symbol].value[2],
                                             regs[index].isUpValue, index>>)
                    ELSE installed
    /\ IF r.m.panicked
       THEN pc' = "panicked" /\ UNCHANGED <<actions, changed>>
       ELSE /\ pc' = "poll"
            /\ actions' = IF r.ret = "DONE" THEN actions ELSE Append(actions, index)
            /\ changed' = (changed \/ r.ret = "DONE")
    /\ UNCHANGED <<call, program, done, ret, diagnostics>>

\* the body of the for loop of iterate (analyse.ts:1830-1847) around the
\* outcome r of the poll of register index
Polled(index, r) ==
    /\ memory' = r.m
    /\ resolved' = r.res
    /\ closures' = [closures EXCEPT ![index] = r.cl]
    /\ pending' = Tail(pending)
    /\ installed' = IF regs[index].kind = "SYMBOL_RULE" /\ r.ret = "DONE"
                    THEN Append(installed, <<r.res[regs[index].symbol].value[2],
                                             regs[index].isUpValue, index>>)
                    ELSE installed
    /\ IF r.m.panicked
       THEN pc' = "panicked" /\ UNCHANGED <<actions, changed>>
       ELSE /\ pc' = "poll"
            /\ actions' = IF r.ret = "DONE" THEN actions ELSE Append(actions, index)
            /\ changed' = (changed \/ r.ret # "UNCHANGED")
    /\ UNCHANGED <<call, program, done, ret, diagnostics>>

Polling(kind) == pc = "poll" /\ pending # <<>> /\ regs[Head(pending)].kind = kind

\* action(this) for the action pollAction (analyse.ts:1698-1825) made of the
\* register, one action per case of its switch
PollCall ==
    /\ Polling("CALL")
    /\ Polled(Head(pending),
              pollCallAction(memory, resolved, closures[Head(pending)], Head(pending),
                            regs[Head(pending)]))

PollFnType ==
    /\ Polling("FN_TYPE")
    /\ Polled(Head(pending),
              pollFnTypeAction(memory, resolved, closures[Head(pending)], Head(pending),
                              regs[Head(pending)]))

PollExpr ==
    /\ Polling("EXPR")
    /\ Polled(Head(pending),
              pollExprAction(memory, resolved, closures[Head(pending)], Head(pending),
                            regs[Head(pending)]))

PollNumber ==
    /\ Polling("NUMBER")
    /\ Polled(Head(pending),
              pollNumberAction(memory, resolved, closures[Head(pending)], Head(pending),
                              regs[Head(pending)]))

PollRoot ==
    /\ Polling("ROOT")
    /\ Polled(Head(pending),
              pollRootAction(memory, resolved, closures[Head(pending)], Head(pending),
                            regs[Head(pending)]))

PollVariable ==
    /\ Polling("VARIABLE")
    /\ Polled(Head(pending),
              pollVariableAction(memory, resolved, closures[Head(pending)], Head(pending),
                                regs[Head(pending)]))

PollUnknown ==
    /\ Polling("UNKNOWN")
    /\ Polled(Head(pending),
              pollUnknownAction(memory, resolved, closures[Head(pending)], Head(pending),
                               regs[Head(pending)]))

PollSymbol ==
    /\ Polling("SYMBOL")
    /\ Polled(Head(pending),
              pollSymbolAction(memory, resolved, closures[Head(pending)], Head(pending),
                              regs[Head(pending)]))

PollSymbolAssign ==
    /\ Polling("SYMBOL_ASSIGN")
    /\ Polled(Head(pending),
              pollSymbolAssignAction(memory, resolved, closures[Head(pending)], Head(pending),
                                    regs[Head(pending)]))

PollSymbolType ==
    /\ Polling("SYMBOL_TYPE")
    /\ Polled(Head(pending),
              pollSymbolTypeAction(memory, resolved, closures[Head(pending)], Head(pending),
                                  regs[Head(pending)]))

PollSymbolRule ==
    /\ Polling("SYMBOL_RULE")
    /\ Polled(Head(pending),
              pollSymbolRuleAction(memory, resolved, closures[Head(pending)], Head(pending),
                                  regs[Head(pending)]))

PollMemberAccess ==
    /\ Polling("MEMBER_ACCESS")
    /\ Polled(Head(pending),
              pollMemberAccessAction(memory, resolved, closures[Head(pending)], Head(pending),
                                    regs[Head(pending)]))

PollLambda ==
    /\ Polling("LAMBDA")
    /\ Polled(Head(pending),
              pollLambdaAction(memory, resolved, closures[Head(pending)], Head(pending),
                              regs[Head(pending)]))

\* iterate (analyse.ts:1848) calls ConstraintSolver.evaluate once every
\* action was polled (analyse.ts:1397-1398)
csolverEvaluate ==
    /\ pc = "poll"
    /\ pending = <<>>
    /\ ret' = FALSE
    /\ done' = FALSE
    /\ pc' = "evaluate"
    /\ UNCHANGED <<call, program, memory, resolved, actions, closures, pending, changed,
                   diagnostics, installed>>

\* one turn of the while loop of evaluate (analyse.ts:1399-1403)
beginPass ==
    /\ pc = "evaluate"
    /\ ~done
    /\ done' = TRUE
    /\ memory' = [memory EXCEPT !.cons = memory.constraints,
                                !.constraints = <<>>,
                                !.constraintUnknowns = {}]
    /\ pc' = "pass"
    /\ UNCHANGED <<call, program, resolved, actions, closures, pending, changed, ret,
                   diagnostics, installed>>

\* the body of the for loop of evaluate (analyse.ts:1404-1409)
Evaluated(r) ==
    /\ memory' = [r[1] EXCEPT !.cons = Tail(@)]
    /\ done' = IF r[2] THEN FALSE ELSE done
    /\ ret' = IF r[2] THEN TRUE ELSE ret
    /\ pc' = IF r[1].panicked THEN "panicked" ELSE "pass"
    /\ UNCHANGED <<call, program, resolved, actions, closures, pending, changed,
                   diagnostics, installed>>

Evaluating(kind) == pc = "pass" /\ memory.cons # <<>> /\ Head(memory.cons).kind = kind

EvaluateEqual ==
    Evaluating("EQUAL") /\ Evaluated(evaluateConstraintEqual(memory, Head(memory.cons)))
EvaluateTypeof ==
    Evaluating("TYPEOF") /\ Evaluated(evaluateConstraintTypeof(memory, Head(memory.cons)))
EvaluateFnTypeType ==
    Evaluating("FN_TYPE_TYPE") /\ Evaluated(evaluateConstraintFnTypeType(memory, Head(memory.cons)))
EvaluateEqualWithReplace ==
    Evaluating("EQUAL_WITH_REPLACE") /\ Evaluated(evaluateConstraintEqualWithReplace(memory, Head(memory.cons)))

endPass ==
    /\ pc = "pass"
    /\ memory.cons = <<>>
    /\ pc' = "evaluate"
    /\ UNCHANGED <<call, program, memory, resolved, actions, closures, pending, changed, done, ret,
                   diagnostics, installed>>

\* evaluate returns ret (analyse.ts:1411), iterate returns changed
\* (analyse.ts:1848-1849) and run goes on while it is true (analyse.ts:1852)
endIterate ==
    /\ pc = "evaluate"
    /\ done
    /\ changed' = (ret \/ changed)
    /\ pc' = IF ret \/ changed THEN "run" ELSE "collect"
    /\ UNCHANGED <<call, program, memory, resolved, actions, closures, pending, done, ret,
                   diagnostics, installed>>

\* HIRSolver.collectDiagnostics (analyse.ts:1854-1857) after run
CollectDiagnostics ==
    /\ pc = "collect"
    /\ diagnostics' = collectDiagnostics(memory)
    /\ pc' = "done"
    /\ UNCHANGED <<call, program, memory, resolved, actions, closures, pending, changed, done, ret,
                   installed>>

Next ==
    \/ iterate
    \/ PollCall
    \/ PollFnType
    \/ PollExpr
    \/ PollNumber
    \/ PollRoot
    \/ PollVariable
    \/ PollUnknown
    \/ PollSymbol
    \/ PollSymbolAssign
    \/ PollSymbolType
    \/ PollSymbolRule
    \/ PollMemberAccess
    \/ PollLambda
    \/ csolverEvaluate
    \/ beginPass
    \/ EvaluateEqual
    \/ EvaluateTypeof
    \/ EvaluateFnTypeType
    \/ EvaluateEqualWithReplace
    \/ endPass
    \/ endIterate
    \/ CollectDiagnostics

Spec == Init /\ [][Next]_vars

\* the run is one thread of control: a step that can be taken is taken
FairSpec == Spec /\ WF_vars(Next)

\* ------------------------------------------------------------------------
\* The library functions called directly on a solver's memory
\* ------------------------------------------------------------------------
MaxLevel == 2

\* the memory of a solver that has elaborated
\*   f: builtin.Level -> builtin.Level / f(?x) = builtin.Level.succ(x)
\*   g: builtin.Level -> builtin.Level -> builtin.Level
\*   c: builtin.Level / a = builtin.Level.succ(0)
\*   k: builtin.Level -> builtin.Level / k(0) = 0
\*   b: builtin.Level -> builtin.Level, assignable and not assigned yet
\*   q: builtin.Level -> builtin.Level -> builtin.Level
\*   u: builtin.Level / v: builtin.Level -> builtin.Level
\*   q(?x)(c) = c / q(?x)(?y) = 0
\*   q(u)(?y) ^= 1 / q(u)(c) ^= 2 / builtin.Level.max(?x)(u) ^= 2
\*   q(?x)(v(?y)) ^= 2
\* and holds the holes met on the way
LibF == SymbolExpression(Len(BuiltinSymbolTable) + 1)
LibG == SymbolExpression(Len(BuiltinSymbolTable) + 2)
LibC == SymbolExpression(Len(BuiltinSymbolTable) + 3)
LibA == SymbolExpression(Len(BuiltinSymbolTable) + 4)
LibK == SymbolExpression(Len(BuiltinSymbolTable) + 5)
LibB == SymbolExpression(Len(BuiltinSymbolTable) + 6)
LibQ == SymbolExpression(Len(BuiltinSymbolTable) + 7)
LibU == SymbolExpression(Len(BuiltinSymbolTable) + 8)
LibV == SymbolExpression(Len(BuiltinSymbolTable) + 9)
VarX == VariableExpression(2)
VarY == VariableExpression(3)
VarH == VariableExpression(4)
VarP == VariableExpression(5)

Call2(fn, arg1, arg2) == CallExpression(CallExpression(fn, arg1, 0), arg2, 0)

LibrarySymbols ==
    LET l2l == FnTypeExpression(Nil, levelType, levelType, 0)
    IN << [SymbolData("f", SymRoot, ALLOW_DEF_TYPE + ALLOW_DOWN_VALUE, l2l) EXCEPT
               !.downValues = << <<CallExpression(LibF, VarX, 0),
                                   CallExpression(levelSucc, VarX, 0)>> >>],
          SymbolData("g", SymRoot, ALLOW_DEF_TYPE, FnTypeExpression(Nil, levelType, l2l, 0)),
          SymbolData("c", SymRoot, ALLOW_DEF_TYPE, levelType),
          [SymbolData("a", SymRoot, ALLOW_ASSIGNMENT, levelType) EXCEPT
               !.value = CallExpression(levelSucc, level0, 0)],
          [SymbolData("k", SymRoot, ALLOW_DEF_TYPE + ALLOW_DOWN_VALUE, l2l) EXCEPT
               !.downValues = << <<CallExpression(LibK, level0, 0), level0>> >>],
          SymbolData("b", SymRoot, ALLOW_DEF_TYPE + ALLOW_ASSIGNMENT, l2l),
          [SymbolData("q", SymRoot, ALLOW_DEF_TYPE + ALLOW_DOWN_VALUE,
                      FnTypeExpression(Nil, levelType, l2l, 0)) EXCEPT
               !.downValues = << <<Call2(LibQ, VarX, LibC), LibC>>,
                                 <<Call2(LibQ, VarX, VarY), level0>> >>],
          [SymbolData("u", SymRoot, ALLOW_DEF_TYPE + ALLOW_UP_VALUE, levelType) EXCEPT
               !.upValues = << <<Call2(LibQ, LibU, VarY), NumberExpression(1, TRUE)>>,
                               <<Call2(LibQ, LibU, LibC), NumberExpression(2, TRUE)>>,
                               <<Call2(levelMax, VarX, LibU), NumberExpression(2, TRUE)>> >>],
          [SymbolData("v", SymRoot, ALLOW_DEF_TYPE + ALLOW_UP_VALUE, l2l) EXCEPT
               !.upValues = << <<Call2(LibQ, VarX, CallExpression(LibV, VarY, 0)),
                                 NumberExpression(2, TRUE)>> >>] >>

\* x and y are the Variables of rule patterns and binders, h and p are
\* Variables in call-head position, of one and of two arguments
LibraryVariables ==
    LET l2l == FnTypeExpression(Nil, levelType, levelType, 0)
    IN << [defaultType |-> levelType], [defaultType |-> levelType],
          [defaultType |-> l2l],
          [defaultType |-> FnTypeExpression(Nil, levelType, l2l, 0)] >>

\* 1: the result hole of a FnType's type (no type, no value)
\* 2: a hole written under the binder x (x is excluded)   3: a hole outside it
\* 4: a pattern hole   5: a hole resolved to the level 1
\* 6, 7, 8: a hole 6 without a type, the hole 7 that getType made for its
\*    type, a hole 8 declared with that type, and 6 resolved to 8
\* 9, 10: a hole 9 without a type resolved to the level 1, and the hole 10
\*    that getType made for its type
LibraryUnknowns ==
    << [type |-> Nil, isPattern |-> FALSE, excludedVariables |-> {}, value |-> Nil],
       [type |-> levelType, isPattern |-> FALSE, excludedVariables |-> {2}, value |-> Nil],
       [type |-> levelType, isPattern |-> FALSE, excludedVariables |-> {}, value |-> Nil],
       [type |-> levelType, isPattern |-> TRUE, excludedVariables |-> {}, value |-> Nil],
       [type |-> levelType, isPattern |-> FALSE, excludedVariables |-> {},
        value |-> NumberExpression(1, TRUE)],
       [type |-> Nil, isPattern |-> FALSE, excludedVariables |-> {},
        value |-> UnknownExpression(8)],
       [type |-> Nil, isPattern |-> FALSE, excludedVariables |-> {}, value |-> Nil],
       [type |-> UnknownExpression(7), isPattern |-> FALSE, excludedVariables |-> {},
        value |-> Nil],
       [type |-> Nil, isPattern |-> FALSE, excludedVariables |-> {},
        value |-> NumberExpression(1, TRUE)],
       [type |-> Nil, isPattern |-> FALSE, excludedVariables |-> {}, value |-> Nil] >>

LibraryMemory ==
    add(add([InitialMemory EXCEPT !.symbols = @ \o LibrarySymbols,
                                  !.variables = @ \o LibraryVariables,
                                  !.unknowns = LibraryUnknowns],
            TypeofConstraint(7, UnknownExpression(6))),
        TypeofConstraint(10, UnknownExpression(9)))

\* the expressions the library is called with
Levels == {NumberExpression(v, TRUE) : v \in 0..MaxLevel}
Atoms ==
    Levels \cup {VarX, VarY, levelType, NumberExpression(0, FALSE)}
           \cup {UnknownExpression(u) : u \in 1..Len(LibraryUnknowns)}
           \cup {LibF, LibG, LibC, LibA}
Heads ==
    {LibF, LibG, levelSucc, levelMax, VarH,
     LambdaExpression(VarX, levelType, CallExpression(levelSucc, VarX, 0), 0),
     LambdaExpression(VarX, levelType, UnknownExpression(2), 0),
     LambdaExpression(VarX, levelType, UnknownExpression(3), 0)}
Calls == {CallExpression(h, e, 0) : h \in Heads, e \in Atoms}
Calls2 ==
    {CallExpression(CallExpression(h, d, 0), e, 0) :
        h \in {LibG, levelMax}, d \in Atoms, e \in Atoms}
Binders ==
    {LambdaExpression(VarY, levelType, b, 0) : b \in Atoms \cup Calls}
        \cup {FnTypeExpression(VarY, levelType, b, 0) : b \in Atoms}
        \cup {FnTypeExpression(Nil, b, levelType, 0) : b \in Atoms}
Expressions == Atoms \cup Calls \cup Calls2 \cup Binders

LibraryInit ==
    /\ program = 1
    /\ memory = LibraryMemory
    /\ resolved = <<>>
    /\ actions = <<>>
    /\ closures = <<>>
    /\ pending = <<>>
    /\ changed = FALSE
    /\ done = FALSE
    /\ ret = FALSE
    /\ diagnostics = <<>>
    /\ installed = <<>>
    /\ pc = "library"
    /\ call = NoCall

\* one call is made on a memory
Callable == pc = "library" /\ call = NoCall

Called(op, args, r, out) ==
    /\ memory' = r
    /\ call' = [op |-> op, args |-> args, out |-> out]
    /\ UNCHANGED <<program, resolved, actions, closures, pending, changed, done, ret,
                   diagnostics, installed, pc>>

\* ConstraintSolver.getType (analyse.ts:1135-1142), called twice in a row
GetTypeTwice ==
    /\ Callable
    /\ \E e \in Expressions :
        \E t1 \in {getType(memory, e)} : \E t2 \in {getType(t1[1], e)} :
            Called("getType", <<e>>, t2[1], <<t1[2], t2[2]>>)

\* the Calls that rules of q, u and v and the evaluator of max compete for
RuleArgs == {LibU, CallExpression(LibV, LibC, 0), LibC, level0}
RuleCalls ==
    {Call2(LibQ, d, e) : d \in RuleArgs, e \in RuleArgs}
        \cup {Call2(levelMax, d, LibU) : d \in Levels}
        \cup {Call2(levelMax, LibU, level0), CallExpression(levelSucc, LibU, 0)}

\* Evaluator.evaluate (analyse.ts:1886-2006), called on its own result
EvaluateTwice ==
    /\ Callable
    /\ \E e \in Expressions \cup RuleCalls :
        \E r1 \in {evaluate(memory, e)} : \E r2 \in {evaluate(r1[1], r1[2])} :
            Called("evaluate", <<e>>, r2[1], <<r1[2], r2[2]>>)

\* the rule patterns: Symbols, literals, Calls and pattern Variables
Patterns ==
    {CallExpression(LibF, VarX, 0), CallExpression(LibF, level0, 0),
     CallExpression(CallExpression(LibG, VarX, 0), VarY, 0),
     CallExpression(CallExpression(LibG, VarX, 0), VarX, 0),
     CallExpression(CallExpression(LibG, CallExpression(LibF, VarX, 0), 0), LibC, 0),
     CallExpression(VarH, level0, 0), CallExpression(VarH, VarX, 0)}

\* the substitutions over x, y and h, as functions of the Variable's index
Substitutions ==
    {[v \in {2, 3, 4} |-> CASE v = 2 -> x [] v = 3 -> y [] v = 4 -> h] :
        x \in {level0, LibC, CallExpression(LibF, NumberExpression(1, TRUE), 0)},
        y \in {level0, LibC},
        h \in {LibF, levelSucc, CallExpression(LibG, NumberExpression(1, TRUE), 0)}}

\* expr with every Variable replaced by its image under sigma
RECURSIVE substituted(_, _)
substituted(expr, sigma) ==
    CASE Kind(expr) = "VARIABLE" -> sigma[expr[2]]
      [] Kind(expr) = "CALL" ->
            CallExpression(substituted(expr[2], sigma), substituted(expr[3], sigma), expr[4])
      [] OTHER -> expr

\* matchPattern (analyse.ts:978-1018), called on a pattern and an instance
\* of it
MatchSubstituted ==
    /\ Callable
    /\ \E lhs \in Patterns, sigma \in Substitutions :
        \E r \in {matchPattern(memory, lhs, substituted(lhs, sigma))} :
            Called("matchPattern", <<lhs, sigma>>, memory, r)

\* expressions with a binder of x: x occurs under the binder and, in the
\* last one, after it
Shadowing ==
    LET inc == LambdaExpression(VarX, levelType, CallExpression(levelSucc, VarX, 0), 0)
    IN {LambdaExpression(VarX, levelType, VarX, 0), inc,
        FnTypeExpression(VarX, levelType, makeUniverse(VarX), 0),
        CallExpression(CallExpression(LibG, CallExpression(inc, LibC, 0), 0), VarX, 0)}

\* replaceScopeVariable (analyse.ts:811-815) with the solver, as the
\* evaluator calls it for the beta reduction of (LAMBDA x : body)(arg)
Substitute ==
    /\ Callable
    /\ \E body \in Expressions \cup Shadowing, arg \in {level0, LibC, VarY, UnknownExpression(3)} :
        \E r \in {replaceScopeVariable(memory, body, VarX, arg, TRUE)} :
            Called("replaceScopeVariable", <<body, VarX, arg>>, r[1], <<r[2]>>)

\* the right-hand sides of rules over the pattern Variables x and y, with
\* the holes left in them, and the replacement maps a match produces
Deferrable == {UnknownExpression(1), UnknownExpression(2), UnknownExpression(3), VarX, VarY, LibC}
Deferred ==
    {UnknownExpression(2), UnknownExpression(3)}
        \cup {CallExpression(CallExpression(LibG, d, 0), e, 0) : d \in Deferrable, e \in Deferrable}
Replacements ==
    { << <<VarX[2], level0>> >>, << <<VarY[2], LibC>> >>,
      << <<VarX[2], level0>>, <<VarY[2], LibC>> >>,
      << <<VarY[2], LibC>>, <<VarX[2], LibA>> >> }

\* replaceScopeVariables (analyse.ts:817-874) with the solver, as _postCall
\* calls it on the right-hand side of a matched rule (1986)
SubstituteAll ==
    /\ Callable
    /\ \E body \in Deferred, reps \in Replacements :
        \E r \in {replaceScopeVariables(memory, body, reps, TRUE)} :
            Called("replaceScopeVariables", <<body, reps>>, r[1], <<r[2]>>)

\* the sides of an Equal constraint after evaluation
Sides ==
    {e \in Atoms \cup
            {CallExpression(CallExpression(LibG, UnknownExpression(u), 0), LibC, 0) : u \in {2, 3}}
            \cup {LambdaExpression(v, levelType,
                       CallExpression(CallExpression(LibG, UnknownExpression(2), 0), v, 0), 0) :
                       v \in {VarX, VarY}}
            \cup {FnTypeExpression(v, levelType, UnknownExpression(u), 0) :
                       v \in {VarX, VarY}, u \in {2, 3}} :
        evaluate(LibraryMemory, e) = <<LibraryMemory, e>>}

\* ConstraintSolver.evaluateEqualConstraint (analyse.ts:1165-1304), called
\* on two evaluated sides
CallEvaluateEqualConstraint ==
    /\ Callable
    /\ \E e1 \in Sides, e2 \in Sides :
        \E r \in {evaluateEqualConstraint(memory, e1, e2)} :
            Called("evaluateEqualConstraint", <<e1, e2>>, r[1], <<r[2]>>)

\* the arguments of the built-in evaluators: level literals and
\* expressions that are not literals
LevelArgs == Levels \cup {VarX, LibC, UnknownExpression(3)}

\* the evaluator of Level.succ (analyse.ts:225-230) and of Level.max
\* (249-253), called as _postCall calls them
CallEvaluator ==
    /\ Callable
    /\ \E fn \in {levelSucc, levelMax} :
       \E args \in {<<a>> : a \in LevelArgs} \cup {<<a, b>> : a \in LevelArgs, b \in LevelArgs} :
           Called("evaluator", <<fn, args>>, memory, <<evaluator(fn, args)>>)

\* ConstraintSolver.evaluateConstraint (analyse.ts:1329-1394) on a
\* constraint taken from the active list, as evaluate() calls it
CallEvaluateConstraint ==
    /\ Callable
    /\ \E i \in 1..Len(memory.constraints) :
        \E r \in {evaluateConstraint(
                       [memory EXCEPT !.constraints =
                           SelectSeq(@, LAMBDA c : c.id # memory.constraints[i].id)],
                       memory.constraints[i])} :
            Called("evaluateConstraint", <<memory.constraints[i]>>, r[1], <<r[2]>>)

\* the Calls on the two sides of an Equal constraint: rigid heads (g, succ,
\* Type), heads that can still be rewritten (k, b) and Variable heads, of
\* one and of two arguments
CallArgs == {level0, LibC, UnknownExpression(3)}
CallSides ==
    {e \in {CallExpression(fn, d, 0) :
                fn \in {LibG, levelSucc, type, LibK, LibB, VarH, VarP}, d \in CallArgs}
            \cup {CallExpression(CallExpression(fn, d, 0), e, 0) :
                fn \in {LibG, VarP}, d \in CallArgs, e \in CallArgs} :
        evaluate(LibraryMemory, e) = <<LibraryMemory, e>>}

\* addEqualConstraint (analyse.ts:1132-1134) of two Calls, then the step of
\* evaluate() (1396-1412) that takes the constraint off the active list and
\* hands it to evaluateConstraint (1329-1357)
PostAndEvaluateEqual ==
    /\ Callable
    /\ \E e1 \in CallSides, e2 \in CallSides :
        \E m0 \in {addEqualConstraint(memory, e1, e2)} :
        \E con \in {m0.constraints[Len(m0.constraints)]} :
        \E r \in {evaluateConstraint(
                       [m0 EXCEPT !.constraints = SubSeq(@, 1, Len(@) - 1),
                                  !.cons = <<con>>], con)} :
            Called("postAndEvaluateEqual", <<e1, e2, con>>, [r[1] EXCEPT !.cons = <<>>], <<r[2]>>)

LibraryNext ==
    \/ PostAndEvaluateEqual
    \/ GetTypeTwice
    \/ EvaluateTwice
    \/ MatchSubstituted
    \/ Substitute
    \/ SubstituteAll
    \/ CallEvaluateEqualConstraint
    \/ CallEvaluator
    \/ CallEvaluateConstraint

LibrarySpec == LibraryInit /\ [][LibraryNext]_vars

\* ------------------------------------------------------------------------
\* Properties
\* ------------------------------------------------------------------------
Range(seq) == {seq[i] : i \in 1..Len(seq)}

\* the indices of the Unknown nodes that occur in expr as sub-expressions
RECURSIVE SubUnknowns(_)
SubUnknowns(expr) ==
    CASE Kind(expr) = "UNKNOWN" -> {expr[2]}
      [] Kind(expr) = "CALL" -> SubUnknowns(expr[2]) \cup SubUnknowns(expr[3])
      [] Kind(expr) \in {"FN_TYPE", "LAMBDA"} -> SubUnknowns(expr[3]) \cup SubUnknowns(expr[4])
      [] OTHER -> {}

\* the Unknowns reached from the set us in at most n value pointers
RECURSIVE ReachedUnknowns(_, _, _)
ReachedUnknowns(m, us, n) ==
    IF n = 0 THEN us
    ELSE ReachedUnknowns(m, us \cup UNION {SubUnknowns(m.unknowns[u].value) : u \in us}, n - 1)

\* C1: once the value of an Unknown is set, no step of the run changes it to
\* another expression or clears it
C1_UnknownValueSetOnce ==
    [][\A u \in 1..Len(memory.unknowns) :
          ~IsNil(memory.unknowns[u].value)
              => /\ u <= Len(memory'.unknowns)
                 /\ memory'.unknowns[u].value = memory.unknowns[u].value]_vars

\* the run ended with a pattern Unknown aliased to a Variable by convertRule
\* next to an Unknown the constraint solver gave a value
C1_Witness ==
    /\ pc = "done"
    /\ \E u \in 1..Len(memory.unknowns) :
          memory.unknowns[u].isPattern /\ Kind(memory.unknowns[u].value) = "VARIABLE"
    /\ \E u \in 1..Len(memory.unknowns) :
          ~memory.unknowns[u].isPattern /\ ~IsNil(memory.unknowns[u].value)

\* C2: for every Unknown u whose value is set, following value pointers and
\* sub-expressions from u.value never reaches u
C2_ValuesAcyclic ==
    \A u \in 1..Len(memory.unknowns) :
        ~IsNil(memory.unknowns[u].value)
            => u \notin ReachedUnknowns(memory, SubUnknowns(memory.unknowns[u].value),
                                        Len(memory.unknowns))

\* the run ended with an Equal constraint left over whose one side is an
\* Unknown without a value that the other side reaches: the write was refused
C2_Witness ==
    /\ pc = "done"
    /\ \E i \in 1..Len(memory.constraints) :
          /\ memory.constraints[i].kind = "EQUAL"
          /\ Kind(memory.constraints[i].expr2) = "UNKNOWN"
          /\ IsNil(memory.unknowns[memory.constraints[i].expr2[2]].value)
          /\ memory.constraints[i].expr2[2] \in
                ReachedUnknowns(memory, SubUnknowns(memory.constraints[i].expr1),
                                Len(memory.unknowns))

\* C3: the elaboration loop terminates: every run comes to the end of run()
\* (or is ended by an exception)
C3_Terminates == <>(pc \in {"done", "panicked"})

\* C4: the value of a Symbol is written at most once, and a Symbol whose
\* flags lack ALLOW_ASSIGNMENT never has a value
C4_SymbolValueSetOnce ==
    [][/\ \A s \in 1..Len(memory.symbols) :
             ~IsNil(memory.symbols[s].value)
                 => memory'.symbols[s].value = memory.symbols[s].value
       /\ \A s \in 1..Len(memory'.symbols) :
             ~IsNil(memory'.symbols[s].value)
                 => HasFlag(memory'.symbols[s].flags, ALLOW_ASSIGNMENT)]_vars

\* the second SymbolAssign of a symbol was polled and the symbol still has
\* the value the first one gave it
C4_Witness ==
    /\ program = 2
    /\ pc = "panicked"
    /\ \E i \in 1..Len(regs) :
          /\ regs[i].kind = "SYMBOL_ASSIGN"
          /\ ~IsNil(resolved[i].value)
          /\ memory.symbols[resolved[regs[i].symbol].value[2]].value
                = resolved[regs[i].value].value

\* C5: no poll of a register throws: the step that polls an action never
\* ends the run with an exception
C5_PollNeverThrows == [][pc = "poll" => pc' # "panicked"]_vars

\* an Equal constraint between two distinct Symbols that have no value
RigidEqual(m, con) ==
    /\ con.kind = "EQUAL"
    /\ Kind(con.expr1) = "SYMBOL"
    /\ Kind(con.expr2) = "SYMBOL"
    /\ con.expr1 # con.expr2
    /\ IsNil(m.symbols[con.expr1[2]].value)
    /\ IsNil(m.symbols[con.expr2[2]].value)

HeldConstraints(m) == Range(m.constraints) \cup Range(m.erroredConstraints)

C7_UninferredReported ==
    pc = "done" =>
        \A i \in 1..Len(regs) :
            (/\ regs[i].kind = "UNKNOWN"
             /\ Kind(resolved[i].value) = "UNKNOWN"
             /\ IsNil(memory.unknowns[resolved[i].value[2]].value))
                => Uninferred(resolved[i].value[2]) \in Range(diagnostics)

\* C8: the value of a register slot is written only while it is unset, only
\* by the poll of the register's own action, and a register whose value is
\* set has no action left
C8_RegisterValueSetOnce ==
    [][/\ \A i \in 1..Len(regs) :
             resolved'[i].value # resolved[i].value
                 => /\ IsNil(resolved[i].value)
                    /\ pc = "poll"
                    /\ pending # <<>>
                    /\ Head(pending) = i
       /\ \A i \in 1..Len(regs) :
             ~IsNil(resolved'[i].value) => i \notin Range(actions') \cup Range(pending')]_vars

\* the run ended with the value of a SymbolAssign register set and its
\* action gone
C8_Witness ==
    /\ pc = "done"
    /\ \E i \in 1..Len(regs) :
          regs[i].kind = "SYMBOL_ASSIGN" /\ ~IsNil(resolved[i].value) /\ i \notin Range(actions)

\* C9: when the run over  id: (T: Type(0)) -> T -> T = \T \x x  ends, the
\* Lambda and SymbolAssign registers are resolved and have no action left,
\* the value of id is the lambda and there is no diagnostic
C9_IdResolved ==
    (program = 1 /\ pc = "done") =>
        /\ \A i \in 1..Len(regs) :
              regs[i].kind \in {"LAMBDA", "SYMBOL_ASSIGN"}
                  => ~IsNil(resolved[i].value) /\ i \notin Range(actions)
        /\ \A s \in 1..Len(memory.symbols) :
              memory.symbols[s].name = "id" => Kind(memory.symbols[s].value) = "LAMBDA"
        /\ diagnostics = <<>>

\* C10: of two rules installed in the same list of the same symbol, the one
\* of the register with the lower index was installed first
C10_RulesInDeclarationOrder ==
    \A i, j \in 1..Len(installed) :
        (i < j /\ installed[i][1] = installed[j][1] /\ installed[i][2] = installed[j][2])
            => installed[i][3] < installed[j][3]

\* C11: two calls of getType on the same expression, with no solver step in
\* between, return sameQ results
C11_GetTypeTwiceSameQ ==
    call.op = "getType" => sameQ(memory, call.out[1], call.out[2])

\* C12: evaluation is idempotent: evaluating the result of evaluate(e) again
\* gives a sameQ expression
C12_EvaluateIdempotent ==
    call.op = "evaluate" => sameQ(memory, call.out[1], call.out[2])

\* f(0) has been rewritten by the rule f(?x) = succ(x) and evaluated to 1
C12_Witness ==
    /\ call.op = "evaluate"
    /\ call.args[1] = CallExpression(LibF, level0, 0)
    /\ call.out = <<NumberExpression(1, TRUE), NumberExpression(1, TRUE)>>

\* the indices of the Variables that occur in expr
RECURSIVE SubVariables(_)
SubVariables(expr) ==
    CASE Kind(expr) = "VARIABLE" -> {expr[2]}
      [] Kind(expr) = "CALL" -> SubVariables(expr[2]) \cup SubVariables(expr[3])
      [] Kind(expr) \in {"FN_TYPE", "LAMBDA"} -> SubVariables(expr[3]) \cup SubVariables(expr[4])
      [] OTHER -> {}

\* C13: matching a pattern against its image under a substitution succeeds
\* and binds each Variable of the pattern to its image
C13_MatchSubstituted ==
    call.op = "matchPattern" =>
        /\ call.out[1]
        /\ \A v \in SubVariables(call.args[1]) :
               /\ MapGet(call.out[2], v, Nil) # Nil
               /\ sameQ(memory, MapGet(call.out[2], v, Nil), call.args[2][v])

\* the constraints added to the library memory by the call
PostedConstraints == Range(memory.constraints) \ Range(LibraryMemory.constraints)

\* C14: substituting arg for v leaves every unset Unknown that excludes v
\* as the same node in the result, unchanged, and posts no constraint for it
C14_ExcludingUnknownUntouched ==
    call.op = "replaceScopeVariable" =>
        \A u \in SubUnknowns(call.args[1]) :
            (/\ IsNil(LibraryMemory.unknowns[u].value)
             /\ call.args[2][2] \in LibraryMemory.unknowns[u].excludedVariables) =>
                /\ u \in SubUnknowns(call.out[1])
                /\ memory.unknowns[u] = LibraryMemory.unknowns[u]
                /\ \A c \in PostedConstraints :
                       c.target # u /\ UnknownExpression(u) \notin {c.expr1, c.expr2}

\* g(?2)(?3) has been substituted: ?2 excludes x and is kept, ?3 does not
\* and is replaced by a new Unknown with an EQUAL_WITH_REPLACE constraint
C14_Witness ==
    /\ call.op = "replaceScopeVariable"
    /\ call.args[1] = CallExpression(CallExpression(LibG, UnknownExpression(2), 0),
                                      UnknownExpression(3), 0)
    /\ call.out[1][2][3] = UnknownExpression(2)
    /\ call.out[1][3] = UnknownExpression(Len(LibraryUnknowns) + 1)
    /\ \E c \in PostedConstraints : c.kind = "EQUAL_WITH_REPLACE"

\* C15: every step keeps every Unknown and every Variable of its
\* excludedVariables set
C15_ExcludedVariablesGrow ==
    [][\A u \in 1..Len(memory.unknowns) :
          /\ u <= Len(memory'.unknowns)
          /\ memory.unknowns[u].excludedVariables
                 \subseteq memory'.unknowns[u].excludedVariables]_vars

\* two function types binding x have been unified: the hole ?2 written
\* under x now excludes the Variable the binders were renamed to as well
C15_Witness ==
    /\ call.op = "evaluateEqualConstraint"
    /\ Kind(call.args[1]) = "FN_TYPE"
    /\ LibraryMemory.unknowns[2].excludedVariables = {2}
    /\ memory.unknowns[2].excludedVariables = {2, Len(LibraryVariables) + 2}

\* C16: on level literals succ(n) is n + 1 and max(a, b) is the larger of a
\* and b, so that max is commutative, associative and idempotent and
\* max(0, n) is n; max(0, x) and max(x, 0) are x for an x that is no literal
C16_LevelEvaluators ==
    call.op = "evaluator" =>
        LET fn == call.args[1]
            args == call.args[2]
            out == call.out[1]
            lit(n) == NumberExpression(n, TRUE)
            max(a, b) == evaluator(levelMax, <<a, b>>)
        IN /\ (fn = levelSucc /\ isLevel(args[1])) => out = lit(args[1][2] + 1)
           /\ (fn = levelMax /\ Len(args) = 2 /\ isLevel(args[1]) /\ isLevel(args[2])) =>
                 /\ out = lit(IF args[1][2] >= args[2][2] THEN args[1][2] ELSE args[2][2])
                 /\ out = max(args[2], args[1])
                 /\ args[1] = args[2] => out = args[1]
                 /\ args[1] = level0 => out = args[2]
                 /\ \A c \in Levels : max(out, c) = max(args[1], max(args[2], c))
           /\ (fn = levelMax /\ Len(args) = 2 /\ ~isLevel(args[1]) /\ args[2] = level0) =>
                 out = args[1]
           /\ (fn = levelMax /\ Len(args) = 2 /\ ~isLevel(args[2]) /\ args[1] = level0) =>
                 out = args[2]

\* max(x, 0) has been reduced to the Variable x
C16_Witness ==
    /\ call.op = "evaluator"
    /\ call.args = <<levelMax, <<VarX, level0>> >>
    /\ call.out = <<VarX>>

\* the sequence of register indices is in register order, each at most once
Ascending(seq) == \A i \in 1..Len(seq), j \in 1..Len(seq) : i < j => seq[i] < seq[j]

C18_EqualUnknownSide ==
    call.op = "evaluateEqualConstraint" =>
        LET e1 == call.args[1]
            e2 == call.args[2]
            pre == LibraryMemory
            isU(e) == Kind(e) = "UNKNOWN"
            pat(e) == pre.unknowns[e[2]].isPattern
            targets == IF isU(e1) /\ isU(e2)
                       THEN IF pat(e1) # pat(e2) THEN {e \in {e1, e2} : ~pat(e)} ELSE {e1, e2}
                       ELSE {e \in {e1, e2} : isU(e)}
            mentions(o, t) ==
                t[2] \in ReachedUnknowns(pre, SubUnknowns(o), Len(pre.unknowns))
            equals == {c \in PostedConstraints : c.kind = "EQUAL"}
        IN ((isU(e1) \/ isU(e2)) /\ e1 # e2) =>
              \E t \in targets :
                 LET o == IF t = e1 THEN e2 ELSE e1
                 IN IF mentions(o, t)
                    THEN ~call.out[1] /\ memory = pre
                    ELSE /\ call.out[1]
                         /\ memory.unknowns[t[2]].value = o
                         /\ \A u \in 1..Len(pre.unknowns) :
                                u # t[2] => memory.unknowns[u] = pre.unknowns[u]
                         /\ IF IsNil(pre.unknowns[t[2]].type) THEN equals = {}
                            ELSE /\ Cardinality(equals) = 1
                                 /\ \A c \in equals :
                                        /\ c.expr1 = pre.unknowns[t[2]].type
                                        /\ c.expr2 = getType(pre, o)[2]

\* the pattern hole ?4 against the hole ?3: ?3 is the target although it is
\* the second side, and Equal(Level, Level) is posted for its type
C18_Witness ==
    /\ call.op = "evaluateEqualConstraint"
    /\ call.args = <<UnknownExpression(4), UnknownExpression(3)>>
    /\ memory.unknowns[3].value = UnknownExpression(4)
    /\ IsNil(memory.unknowns[4].value)
    /\ \E c \in PostedConstraints : c.kind = "EQUAL" /\ c.expr1 = levelType

\* C19: every write of an Unknown's value goes through setUnknown, and so
\* through its type-compatibility constraint: a step that gives a value to
\* an Unknown that has a type posts an Equal constraint on that type
C19_WritesThroughSetUnknown ==
    [][\A u \in 1..Len(memory.unknowns) :
          (/\ IsNil(memory.unknowns[u].value)
           /\ ~IsNil(memory'.unknowns[u].value)
           /\ ~IsNil(memory.unknowns[u].type)) =>
              \E c \in Range(memory'.constraints) \ Range(memory.constraints) :
                 c.kind = "EQUAL" /\ c.expr1 = memory.unknowns[u].type]_vars

\* C20: a Typeof constraint whose source has a value and whose assignment
\* target := typeOf(source.value) fails the occurs check is moved to the
\* errored list and is not put back on the active list
C20_TypeofFailureErrored ==
    (/\ call.op = "evaluateConstraint"
     /\ call.args[1].kind = "TYPEOF"
     /\ ~IsNil(LibraryMemory.unknowns[call.args[1].expr1[2]].value)
     /\ call.args[1].target \in
            ReachedUnknowns(LibraryMemory,
                            SubUnknowns(getType(LibraryMemory, call.args[1].expr1)[2]),
                            Len(LibraryMemory.unknowns))) =>
        /\ \E c \in Range(memory.erroredConstraints) : c.id = call.args[1].id
        /\ \A c \in Range(memory.constraints) : c.id # call.args[1].id

\* the Equal constraints the call posted, as <<expr1, expr2>> in posting order
PostedEquals ==
    LET posted == SelectSeq(memory.constraints,
                            LAMBDA c : c \notin Range(LibraryMemory.constraints)
                                       /\ c.kind = "EQUAL")
    IN [i \in 1..Len(posted) |-> <<posted[i].expr1, posted[i].expr2>>]

\* the pairs of corresponding arguments of two Calls
ArgPairs(e1, e2) ==
    LET args1 == collectFnArgs(LibraryMemory, e1)[2]
        args2 == collectFnArgs(LibraryMemory, e2)[2]
    IN [i \in 1..Len(args1) |-> <<args1[i], args2[i]>>]

SameHead(e1, e2, kind) ==
    LET fa1 == collectFnArgs(LibraryMemory, e1)
        fa2 == collectFnArgs(LibraryMemory, e2)
    IN Kind(fa1[1]) = kind /\ fa1[1] = fa2[1]

SameArity(e1, e2) ==
    Len(collectFnArgs(LibraryMemory, e1)[2]) = Len(collectFnArgs(LibraryMemory, e2)[2])

\* C21: an Equal between two Calls with the same Symbol head and the same
\* number of arguments is decomposed exactly when the head has neither
\* ALLOW_ASSIGNMENT nor ALLOW_DOWN_VALUE: then the constraint leaves the
\* active list and the Equals posted are one per argument pair, in order,
\* followed by the Equal of the two Calls' types unless the head is Type;
\* with one of the two flags no Equal of an argument pair is posted
C21_SymbolHeadDecomposed ==
    call.op = "postAndEvaluateEqual"
        => LET e1 == call.args[1]
               e2 == call.args[2]
               fn == getFn(LibraryMemory, e1)
           IN SameHead(e1, e2, "SYMBOL") /\ SameArity(e1, e2)
                => IF ~HasFlag(memory.symbols[fn[2]].flags, ALLOW_DOWN_VALUE)
                      /\ ~HasFlag(memory.symbols[fn[2]].flags, ALLOW_ASSIGNMENT)
                   THEN /\ call.out = <<TRUE>>
                        /\ call.args[3].id \notin {c.id : c \in Range(memory.constraints)}
                        /\ PostedEquals =
                             ArgPairs(e1, e2)
                             \o (IF fn = type THEN <<>>
                                 ELSE << <<getType(memory, e1)[2], getType(memory, e2)[2]>> >>)
                   ELSE \A i \in 1..Len(ArgPairs(e1, e2)) :
                            ArgPairs(e1, e2)[i] \notin Range(PostedEquals)

\* two Calls of g with two arguments each were equated: two argument
\* Equals and the Equal of the types were posted
C21_Witness ==
    /\ call.op = "postAndEvaluateEqual"
    /\ SameHead(call.args[1], call.args[2], "SYMBOL")
    /\ getFn(LibraryMemory, call.args[1]) = LibG
    /\ call.args[1] # call.args[2]
    /\ SameArity(call.args[1], call.args[2])
    /\ Len(ArgPairs(call.args[1], call.args[2])) = 2
    /\ Len(PostedEquals) = 3

VariableHeads(e1, e2) ==
    /\ Kind(getFn(LibraryMemory, e1)) = "VARIABLE"
    /\ Kind(getFn(LibraryMemory, e2)) = "VARIABLE"

\* C22: an Equal between two Calls whose heads are Variables posts one Equal
\* per argument pair and the Equal of the Calls' types when the heads are
\* the same Variable and the Calls have the same number of arguments; in
\* every other case it posts no Equal and the constraint is in the errored
\* list afterwards
C22_VariableHeadDecomposed ==
    call.op = "postAndEvaluateEqual" /\ VariableHeads(call.args[1], call.args[2])
        => LET e1 == call.args[1]
               e2 == call.args[2]
           IN IF SameHead(e1, e2, "VARIABLE") /\ SameArity(e1, e2)
              THEN PostedEquals =
                       ArgPairs(e1, e2)
                       \o << <<getType(memory, e1)[2], getType(memory, e2)[2]>> >>
              ELSE /\ PostedEquals = <<>>
                   /\ ~memory.panicked
                   /\ \E c \in Range(memory.erroredConstraints) :
                          c.kind = "EQUAL" /\ c.expr1 = e1 /\ c.expr2 = e2

\* expr with the free occurrences of the Variable v replaced by rep: a
\* binder of v keeps its body
RECURSIVE FreeSubstituted(_, _, _)
FreeSubstituted(expr, v, rep) ==
    CASE Kind(expr) = "VARIABLE" -> IF expr = v THEN rep ELSE expr
      [] Kind(expr) = "CALL" ->
            CallExpression(FreeSubstituted(expr[2], v, rep), FreeSubstituted(expr[3], v, rep),
                           expr[4])
      [] Kind(expr) \in {"FN_TYPE", "LAMBDA"} ->
            <<expr[1], expr[2], FreeSubstituted(expr[3], v, rep),
              IF expr[2] = v THEN expr[4] ELSE FreeSubstituted(expr[4], v, rep), expr[5]>>
      [] OTHER -> expr

\* C23: replaceScopeVariables leaves the occurrences of a key under a Lambda
\* or FnType that binds that key unreplaced, and replaces the occurrences
\* after the binder
C23_ShadowedKeyDropped ==
    call.op = "replaceScopeVariable" /\ call.args[1] \in Shadowing
        => call.out[1] = FreeSubstituted(call.args[1], call.args[2], call.args[3])

\* the EqualWithReplace constraints the call posted for the source Unknown u
DeferredFor(u) ==
    {c \in PostedConstraints : c.kind = "EQUAL_WITH_REPLACE" /\ c.expr1 = UnknownExpression(u)}

\* body with every Variable replaced by its replacement and every Unknown u
\* replaced by image[u]
RECURSIVE Renamed(_, _, _)
Renamed(expr, reps, image) ==
    CASE Kind(expr) = "VARIABLE" -> MapGet(reps, expr[2], expr)
      [] Kind(expr) = "UNKNOWN" -> image[expr[2]]
      [] Kind(expr) = "CALL" ->
            CallExpression(Renamed(expr[2], reps, image), Renamed(expr[3], reps, image), expr[4])
      [] OTHER -> expr

\* the call posted exactly one EqualWithReplace for each Unknown of defer,
\* with the given replacements and a new unset Unknown of the same exclusions
\* as target, none for the other Unknowns of the body, and the result is the
\* body with each deferred Unknown replaced by its target
DeferredExactly(body, reps, defer, replaces(_)) ==
    /\ \A u \in SubUnknowns(body) \ defer : DeferredFor(u) = {}
    /\ \A u \in defer :
          /\ Cardinality(DeferredFor(u)) = 1
          /\ \A c \in DeferredFor(u) :
                /\ c.replaces = replaces(u)
                /\ c.target > Len(LibraryMemory.unknowns)
                /\ IsNil(memory.unknowns[c.target].value)
                /\ memory.unknowns[c.target].excludedVariables
                       = LibraryMemory.unknowns[u].excludedVariables
    /\ \A u \in SubUnknowns(body) : memory.unknowns[u] = LibraryMemory.unknowns[u]
    /\ call.out[1] =
          Renamed(body, reps,
                  [u \in 1..Len(LibraryMemory.unknowns) |->
                      IF u \in defer /\ DeferredFor(u) # {}
                      THEN UnknownExpression((CHOOSE c \in DeferredFor(u) : TRUE).target)
                      ELSE UnknownExpression(u)])

Keys(reps) == {reps[i][1] : i \in 1..Len(reps)}

\* C24 as stated: replaceScopeVariables with a solver defers the unset
\* Unknowns whose excludedVariables contains a key of the replacement map:
\* each gets one EqualWithReplace constraint and is replaced, at every
\* occurrence, by the same new Unknown
C24_ExcludingUnknownDeferred ==
    call.op = "replaceScopeVariables"
        => LET body == call.args[1]
               reps == call.args[2]
           IN \A u \in SubUnknowns(body) :
                  LibraryMemory.unknowns[u].excludedVariables \cap Keys(reps) # {}
                      => /\ Cardinality(DeferredFor(u)) = 1
                         /\ u \notin SubUnknowns(call.out[1])
                         /\ \A c \in DeferredFor(u) :
                                /\ c.target > Len(LibraryMemory.unknowns)
                                /\ c.target \in SubUnknowns(call.out[1])

\* C24 amended: replaceScopeVariables with a solver defers the unset
\* Unknowns whose excludedVariables does not contain every key of the
\* replacement map: each gets one EqualWithReplace constraint that carries
\* the replacements of the keys it does not exclude, and is replaced, at
\* every occurrence, by the same new Unknown; an Unknown that excludes every
\* key stays as it is
C24_NotExcludingUnknownDeferred ==
    call.op = "replaceScopeVariables"
        => LET body == call.args[1]
               reps == call.args[2]
           IN DeferredExactly(body, reps,
                  {u \in SubUnknowns(body) :
                      ~(Keys(reps) \subseteq LibraryMemory.unknowns[u].excludedVariables)},
                  LAMBDA u : SelectSeq(reps, LAMBDA r :
                                 r[1] \notin LibraryMemory.unknowns[u].excludedVariables))

\* x and y were replaced in g(?2)(?2), where ?2 excludes x: one constraint
\* carrying the replacement of y was posted and both occurrences became the
\* same new Unknown
C24_Witness ==
    /\ call.op = "replaceScopeVariables"
    /\ call.args[1] = CallExpression(CallExpression(LibG, UnknownExpression(2), 0),
                                     UnknownExpression(2), 0)
    /\ Keys(call.args[2]) = {VarX[2], VarY[2]}
    /\ Cardinality(DeferredFor(2)) = 1
    /\ call.out[1][3] = call.out[1][2][3]
    /\ call.out[1][3] # UnknownExpression(2)

\* the Symbol whose upValues an argument brings: the argument itself or the
\* head of the Call it is; Nil for any other argument
HeadSymbol(arg) ==
    LET head == IF Kind(arg) = "CALL" THEN getFn(LibraryMemory, arg) ELSE arg
    IN IF Kind(head) = "SYMBOL" THEN head ELSE Nil

\* the rules of the arguments args[i..], upValues of each head in stored order
RECURSIVE UpValuesFrom(_, _)
UpValuesFrom(args, i) ==
    IF i > Len(args) THEN <<>>
    ELSE (IF IsNil(HeadSymbol(args[i])) THEN <<>>
          ELSE LibraryMemory.symbols[HeadSymbol(args[i])[2]].upValues)
         \o UpValuesFrom(args, i + 1)

\* C25: a Call with Symbol head f and arguments a1..an evaluates to what
\* f's built-in evaluator returns when it returns a value; otherwise to the
\* right-hand side of the first rule whose left-hand side matches, among the
\* upValues of the head Symbol of a1, ..., of an and then the downValues of
\* f, each list in stored order; and to itself when no rule matches
C25_RuleOrder ==
    call.op = "evaluate" /\ call.args[1] \in RuleCalls
        => LET e == call.args[1]
               fa == collectFnArgs(LibraryMemory, e)
               rules == UpValuesFrom(fa[2], 1) \o LibraryMemory.symbols[fa[1][2]].downValues
               hits == {i \in 1..Len(rules) : matchPattern(LibraryMemory, rules[i][1], e)[1]}
           IN IF ~IsNil(evaluator(fa[1], fa[2])) THEN call.out[1] = evaluator(fa[1], fa[2])
              ELSE IF hits = {} THEN call.out[1] = e
              ELSE call.out[1] = rules[CHOOSE i \in hits : \A j \in hits : i <= j][2]

\* q(u)(v(c)) was evaluated: the first upValue of u, the upValue of v and the
\* second downValue of q match, and the result is the right-hand side of
\* the first
C25_Witness ==
    /\ call.op = "evaluate"
    /\ call.args[1] = Call2(LibQ, LibU, CallExpression(LibV, LibC, 0))
    /\ matchPattern(LibraryMemory, LibraryMemory.symbols[LibV[2]].upValues[1][1], call.args[1])[1]
    /\ matchPattern(LibraryMemory, LibraryMemory.symbols[LibQ[2]].downValues[2][1], call.args[1])[1]
    /\ call.out[1] = LibraryMemory.symbols[LibU[2]].upValues[1][2]

\* the leading FnTypes of the type ty whose color is not color
RECURSIVE LeadingImplicit(_, _, _)
LeadingImplicit(m, ty, color) ==
    LET e == unwrapUnknown(m, ty)
    IN IF Kind(e) = "FN_TYPE" /\ e[5] # color
       THEN <<e>> \o LeadingImplicit(m, e[4], color)
       ELSE <<>>

\* fn applied to the Unknowns first + 1, ..., first + Len(implicit), each
\* with the color of its FnType
RECURSIVE AppliedToNew(_, _, _)
AppliedToNew(fn, implicit, first) ==
    IF implicit = <<>> THEN fn
    ELSE AppliedToNew(CallExpression(fn, UnknownExpression(first + 1), implicit[1][5]),
                      Tail(implicit), first + 1)

\* the Equal constraints of m2 that are not in m1, as <<expr1, expr2>>
NewEquals(m1, m2) ==
    LET posted == SelectSeq(m2.constraints,
                            LAMBDA c : c.kind = "EQUAL" /\ c \notin Range(m1.constraints))
    IN [i \in 1..Len(posted) |-> <<posted[i].expr1, posted[i].expr2>>]

Mentioned(con) ==
    (IF con.target = 0 THEN {} ELSE {con.target})
        \cup SubUnknowns(con.expr1) \cup SubUnknowns(con.expr2)
        \cup UNION {SubUnknowns(con.replaces[i][2]) : i \in 1..Len(con.replaces)}

\* the unset Unknowns expr contains, directly or through values
UnsetUnknowns(m, expr) ==
    {u \in ReachedUnknowns(m, SubUnknowns(expr), Len(m.unknowns)) : IsNil(m.unknowns[u].value)}

\* C27: a SymbolRule register installs its rule once, and only in a state
\* where no unset Unknown contained in its resolved left-hand or right-hand
\* side, directly or through values, is mentioned by a constraint of the
\* active list, the source of an EqualWithReplace included
C27_RuleInstalledWhenSettled ==
    [][Polling("SYMBOL_RULE") /\ installed' # installed
          => LET value == regs[Head(pending)]
             IN /\ IsNil(resolved[Head(pending)].value)
                /\ \A i \in 1..Len(installed) : installed[i][3] # Head(pending)
                /\ \A c \in Range(memory.constraints) :
                      Mentioned(c)
                          \cap (UnsetUnknowns(memory, resolved[value.lhs].value)
                                \cup UnsetUnknowns(memory, resolved[value.rhs].value)) = {}]_vars

\* the registers a register reads: its operands
Operands(reg) ==
    ({reg.parent, reg.symbol, reg.fn, reg.arg, reg.argType, reg.inputType, reg.outputType,
      reg.body, reg.lhs, reg.rhs, reg.type}
        \cup (IF reg.kind = "SYMBOL_ASSIGN" THEN {reg.value} ELSE {})) \ {0}

\* C28: whatever the order of the register array, a register whose operands
\* all receive values is polled to DONE: when run() has returned, every
\* register whose operands all have a value has a value itself
C28_ResolvedWhenOperandsAre ==
    pc = "done"
        => \A i \in 1..Len(regs) :
              (\A o \in Operands(regs[i]) : ~IsNil(resolved[o].value))
                  => ~IsNil(resolved[i].value)

\* C29: a poll that returns UNCHANGED has no effect on the solver state: it
\* writes no register's type or value, posts no constraint, makes no Unknown
\* and changes no Symbol, Variable or Unknown
C29_UnchangedPollHasNoEffect ==
    [][pc = "poll" /\ pending # <<>> /\ pc' # "panicked"
         /\ pollAction(memory, resolved, closures[Head(pending)], Head(pending),
                       regs[Head(pending)]).ret = "UNCHANGED"
          => /\ resolved' = resolved
             /\ memory'.constraints = memory.constraints
             /\ memory'.erroredConstraints = memory.erroredConstraints
             /\ memory'.unknowns = memory.unknowns
             /\ memory'.symbols = memory.symbols
             /\ memory'.variables = memory.variables]_vars

\* C30: a Number register is resolved whenever the type handed to its slot
\* is, or has become through the value of an Unknown, the Level symbol or
\* the number symbol: when run() has returned it has a value; the literal
\* has isLevel exactly when that type is Level; and a Number register whose
\* slot type is anything else has no value
C30_NumberResolvedByType ==
    \A i \in 1..Len(regs) :
        regs[i].kind = "NUMBER"
            => LET ty == unwrapUnknownNullable(memory, resolved[i].type)
               IN /\ pc = "done" /\ ty \in {levelType, numberType}
                      => ~IsNil(resolved[i].value)
                  /\ ~IsNil(resolved[i].value)
                      => /\ ty \in {levelType, numberType}
                         /\ resolved[i].value = NumberExpression(regs[i].value, ty = levelType)

====
